---- MODULE Spec2Model ----
(***************************************************************************)
(* Request-execution pipeline of the sumup/graphql client.                 *)
(*                                                                         *)
(* Two implementations of the pipeline live in the repository and both are *)
(* modelled, selected by the variable impl:                                *)
(*   "client"  Client.Run / runWithJSON / runWithPostFields (graphql.go)   *)
(*   "chain"   chain.Action = start.validate.createRequest.call            *)
(*             .parseResponse (unnamed/part_001)                           *)
(* Strings whose content matters are sequences of one-character strings,   *)
(* a nil-able pointer is a sequence of length 0 (nil) or 1.                *)
(***************************************************************************)
EXTENDS Integers, Sequences, FiniteSets, TLC

VARIABLES
    impl,             \* which pipeline executes
    useMultipartForm, \* client/chain configuration
    endpointOK,       \* whether http.NewRequest accepts the endpoint
    ctxDone,          \* call context already cancelled (Client.Run only)
    op,               \* the operation: isMutation, vars, files
    writerCloseOK,    \* whether multipart writer.Close succeeds
    pc,               \* position of the execution
    error,            \* recorded / returned error
    request,          \* the built *http.Request (built or not)
    response,         \* the *http.Response obtained from Do
    body,             \* what was read from the response body
    doCalls,          \* number of invocations of httpClient.Do
    encodeCalls,      \* number of body encodings started
    filesRead,        \* indices of the file streams read, in order
    result,           \* value returned next to the error
    target,           \* the caller's decode target: what was written into it
    inspected,        \* name of the mutation payload the range loop yielded
    branch,           \* interpretation branch taken: "mutation" or "plain"
    req,              \* a defaultRequest under construction: q, vars, files, header
    calls,            \* the Var, Header and File calls made on req, in order
    httpRequest,      \* the *http.Request last built from req
    builtAt,          \* the number of calls made when httpRequest was built
    origin,           \* the chain shared by concurrent executions
    heap,             \* the chainState objects allocated by start
    frames,           \* per execution: position, its *chainState, what Action returned
    jobs,             \* per execution: its operation and what the transport answers
    crashed,          \* an unrecovered panic has ended the process
    trip,             \* a request on its way through the addOperation round-tripper
    made,             \* a client or chain under construction and its first dispatch
    gerrs,            \* error-taxonomy development: list given to the constructor
    gout,             \* error-taxonomy development: last accessor result
    gresp,            \* error-taxonomy development: response given to the constructor
    gmsg              \* error-taxonomy development: cause given to the constructor

vars == <<impl, useMultipartForm, endpointOK, ctxDone, op, writerCloseOK, pc,
          error, request, response, body, doCalls, encodeCalls, filesRead,
          result, target, inspected, branch, gerrs, gout, gresp, gmsg,
         req, calls, httpRequest, builtAt, origin, heap, frames, jobs, crashed,
         trip, made>>

pipeVars == <<impl, useMultipartForm, endpointOK, ctxDone, op, writerCloseOK, pc,
              error, request, response, body, doCalls, encodeCalls, filesRead,
              result, target, inspected, branch>>

errVars == <<gerrs, gout, gresp, gmsg>>

reqVars == <<req, calls, httpRequest, builtAt>>

parVars == <<origin, heap, frames, jobs, crashed>>

auxVars == <<trip, made>>

(***************************************************************************)
(* Bounds                                                                  *)
(***************************************************************************)
MaxFiles == 2
MaxErrors == 2
MaxMessages == 2

StatusOK == 200

(***************************************************************************)
(* Sequences up to a length                                                *)
(***************************************************************************)
SeqUpTo(S, n) == UNION {[1..k -> S] : k \in 0..n}

(***************************************************************************)
(* Strings                                                                 *)
(***************************************************************************)
Empty == <<>>
s_boom == <<"b", "o", "o", "m">>
s_oops == <<"o", "o", "p", "s">>
s_c1 == <<"c", "1">>
s_C2 == <<"C", "2">>
s_ER == <<"E", "R">>
s_XC == <<"X", "C">>
s_field == <<"f", "d">>
s_path == <<"p", "h">>

LowerChar(c) ==
    CASE c = "A" -> "a" [] c = "B" -> "b" [] c = "C" -> "c" [] c = "D" -> "d"
      [] c = "E" -> "e" [] c = "R" -> "r" [] c = "X" -> "x"
      [] OTHER -> c

ToLower(s) == [i \in 1..Len(s) |-> LowerChar(s[i])]

RECURSIVE Join(_, _)
Join(segs, sep) ==
    IF Len(segs) = 0 THEN Empty
    ELSE IF Len(segs) = 1 THEN segs[1]
    ELSE segs[1] \o sep \o Join(Tail(segs), sep)

(***************************************************************************)
(* Data model                                                              *)
(***************************************************************************)
\* GraphErr{Code, Extentions{Code}, Message, Path}
GraphErr(code, ext, message, path) ==
    [Code |-> code, ExtCode |-> ext, Message |-> message, Path |-> path]

\* an entry of the "errors" array on the wire
WireErr(code, ext, message, path) ==
    [code |-> code, extensions |-> ext, message |-> message, path |-> path]

WireErrs ==
    { WireErr(Empty, Empty, s_boom, <<>>),
      WireErr(s_ER, Empty, s_oops, <<s_field, s_path>>),
      WireErr(Empty, s_XC, Empty, <<>>) }

\* json decoding of one wire entry into GraphErr: the field Extentions has
\* no json tag, so the wire key "extensions" never matches it
DecodeGraphErr(w) == GraphErr(w.code, Empty, w.message, w.path)

DecodeGraphErrs(ws) == [i \in 1..Len(ws) |-> DecodeGraphErr(ws[i])]

\* graphValidationMessage{Code string, Message *string}
ValidationMessage(code, message) == [Code |-> code, Message |-> message]

\* elements of []*graphValidationMessage: <<>> is a nil element
MessagePtrs ==
    { <<>>,
      <<ValidationMessage(s_c1, <<>>)>>,
      <<ValidationMessage(s_C2, <<s_boom>>)>> }

\* graphMutationPayload{Messages, Result, Successful}
Payload(successful, messages, res) ==
    [Successful |-> successful, Messages |-> messages, Result |-> res]

FailedPayloads ==
    { Payload(FALSE, m, r) : m \in SeqUpTo(MessagePtrs, MaxMessages), r \in {"null"} }
      \cup { Payload(FALSE, <<>>, "obj") }

SuccessfulPayloads ==
    { Payload(TRUE, m, r) :
        m \in {<<>>, << <<ValidationMessage(s_C2, <<s_boom>>)>> >>}, r \in {"null", "obj"} }

Payloads == FailedPayloads \cup SuccessfulPayloads

SecondPayloads ==
    { Payload(TRUE, <<>>, "obj"),
      Payload(FALSE, <<>>, "null"),
      Payload(FALSE, << <<ValidationMessage(s_c1, <<>>)>> >>, "null") }

\* the "data" member of the response: absent/null, an object that is not a
\* map of payloads, or a map from mutation field name to payload
NoFields == [n \in {} |-> Payload(FALSE, <<>>, "null")]

DataValues ==
    { [shape |-> "null", fields |-> NoFields],
      [shape |-> "plain", fields |-> NoFields],
      [shape |-> "payloads", fields |-> NoFields] }
      \cup { [shape |-> "payloads", fields |-> [n \in {"m"} |-> p]] : p \in Payloads }
      \cup { [shape |-> "payloads",
              fields |-> [n \in {"m", "n"} |-> IF n = "m" THEN p ELSE q]] :
                p \in SecondPayloads, q \in SecondPayloads }

\* what the response body holds: text that is not JSON, or an envelope;
\* fits says whether "data" decodes into the caller's target shape
Bodies ==
    { [json |-> FALSE, errors |-> <<>>, data |-> [shape |-> "null", fields |-> NoFields],
       fits |-> FALSE] }
      \cup { [json |-> TRUE, errors |-> e, data |-> d, fits |-> f] :
               e \in SeqUpTo(WireErrs, MaxErrors), d \in DataValues, f \in BOOLEAN }

NoBody == [json |-> FALSE, errors |-> <<>>, data |-> [shape |-> "null", fields |-> NoFields],
           fits |-> FALSE, read |-> "no"]

Statuses == {200, 201, 204, 404, 500}

NoResponse == [status |-> 0, closed |-> FALSE]

\* File{Field, Name, R}: copyOK says whether io.Copy from R succeeds
Files == SeqUpTo([copyOK : BOOLEAN], MaxFiles)

\* vars: nil until Var is called; a value may be one json cannot encode
NilVars == [k \in {} |-> "x"]
VarMaps == { NilVars } \cup { [k \in {"username"} |-> v] : v \in {"x", "unencodable"} }

Operations == [isMutation : BOOLEAN, vars : VarMaps, files : Files]

(***************************************************************************)
(* Errors                                                                  *)
(***************************************************************************)
NoError == [kind |-> "nil", label |-> "", cause |-> "", errors |-> <<>>, status |-> 0]

\* NewExecutionError(errors.Wrap(cause, label)); label "" when not wrapped
NewExecutionError(label, cause) ==
    [kind |-> "ExecutionError", label |-> label, cause |-> cause, errors |-> <<>>,
     status |-> 0]

DoFailed_wrapped(cause) == NewExecutionError("do request", cause)

\* c.error = NewExecutionError(err) for the err of httpClient.Do
DoFailed(cause) == NewExecutionError("", cause)

NewRequestError(resp) ==
    [kind |-> "RequestError", label |-> "", cause |-> "", errors |-> <<>>,
     status |-> resp.status]

NewGraphQLError(errors, resp) ==
    [kind |-> "GraphQLError", label |-> "", cause |-> "", errors |-> errors,
     status |-> resp.status]

(***************************************************************************)
(* Guards shared by the two pipelines                                      *)
(***************************************************************************)
ContextDone_never(done) == FALSE

\* select { case <-ctx.Done(): ... default: }
ContextDone(done) == done

CannotSendFiles_two(files, multipart) == Len(files) > 1 /\ ~multipart

CannotSendFiles_any(files, multipart) == Len(files) >= 0 /\ ~multipart

\* len(op.Files()) > 0 && !c.useMultipartForm
CannotSendFiles(files, multipart) == Len(files) > 0 /\ ~multipart

StageRuns_always(err) == TRUE

\* if c.error == nil { ... }: a stage acts only while no error is recorded
StageRuns(err) == err.kind = "nil"

StatusAccepted_2xx(status) == status \in 200..299

\* the negation of res.StatusCode != http.StatusOK
StatusAccepted(status) == status = StatusOK

(***************************************************************************)
(* Body Encoder                                                            *)
(***************************************************************************)
Encodable(v) == \A k \in DOMAIN v : v[k] # "unencodable"

Encoded(mime, read) == [ok |-> TRUE, err |-> NoError, mime |-> mime, read |-> read]

EncodeFailed(label, cause, read) ==
    [ok |-> FALSE, err |-> NewExecutionError(label, cause), mime |-> "", read |-> read]

\* json.NewEncoder(&requestBody).Encode({Query, Variables})
createJSONBody(o) ==
    IF ~Encodable(o.vars)
    THEN EncodeFailed("encode body", "json", <<>>)
    ELSE Encoded("application/json; charset=utf-8", <<>>)

\* index of the first file whose stream copy fails, 0 when none does
FirstBadFile(files) ==
    IF \E i \in 1..Len(files) : ~files[i].copyOK
    THEN CHOOSE i \in 1..Len(files) :
            ~files[i].copyOK /\ \A j \in 1..(i - 1) : files[j].copyOK
    ELSE 0

createMultipartBody_reads_on(o, closeOK) ==
    IF DOMAIN o.vars # {} /\ ~Encodable(o.vars)
    THEN EncodeFailed("encode variables", "json", <<>>)
    ELSE IF FirstBadFile(o.files) # 0
    THEN EncodeFailed("preparing file", "copy", [i \in 1..Len(o.files) |-> i])
    ELSE IF ~closeOK
    THEN EncodeFailed("close writer", "close", [i \in 1..Len(o.files) |-> i])
    ELSE Encoded("multipart/form-data", [i \in 1..Len(o.files) |-> i])

\* query field, variables field when len(vars) > 0, one part per file in
\* order (stopping at the first copy error), writer.Close
createMultipartBody(o, closeOK) ==
    IF DOMAIN o.vars # {} /\ ~Encodable(o.vars)
    THEN EncodeFailed("encode variables", "json", <<>>)
    ELSE IF FirstBadFile(o.files) # 0
    THEN EncodeFailed("preparing file", "copy",
                      [i \in 1..FirstBadFile(o.files) |-> i])
    ELSE IF ~closeOK
    THEN EncodeFailed("close writer", "close", [i \in 1..Len(o.files) |-> i])
    ELSE Encoded("multipart/form-data", [i \in 1..Len(o.files) |-> i])

createRequestBody(o, multipart, closeOK) ==
    IF multipart THEN createMultipartBody(o, closeOK) ELSE createJSONBody(o)

(***************************************************************************)
(* Response Interpreter                                                    *)
(***************************************************************************)
\* outcome of interpreting a buffered body
Parsed(err, res, tgt, panicked) ==
    [err |-> err, result |-> res, target |-> tgt, panic |-> panicked,
     inspected |-> "none"]

\* the caller's target: untouched, left half-written by a failed decode, or
\* holding the decoded "data" value
NullData == [shape |-> "null", fields |-> NoFields]
Untouched == [state |-> "initial", data |-> NullData]
\* the caller passed nil: nothing to decode into, nothing that can fail to fit
NilTarget == [state |-> "nil", data |-> NullData]
Partial == [state |-> "partial", data |-> NullData]
Decoded(data) == [state |-> "decoded", data |-> data]

emptyOrString(pointer) == IF pointer = <<>> THEN Empty ELSE pointer[1]

\* errs[i] = GraphErr{Message: emptyOrString(message.Message), Code: message.Code}
MessagesToErrs(messages) ==
    [i \in 1..Len(messages) |->
        GraphErr(messages[i][1].Code, Empty, emptyOrString(messages[i][1].Message), <<>>)]

\* a nil element of Messages is dereferenced by message.Message
HasNilMessage(messages) == \E i \in 1..Len(messages) : messages[i] = <<>>

Conclude_data_required(errs, resp, tgt) ==
    IF Len(errs) > 0
    THEN Parsed(NewGraphQLError(errs, resp), "nil", tgt, FALSE)
    ELSE IF tgt.state # "decoded"
    THEN Parsed(NewExecutionError("decoding response", "no data"), "nil", tgt, FALSE)
    ELSE Parsed(NoError, "gr", tgt, FALSE)

\* if len(gr.Errors) > 0 { return NewGraphQLError(gr.Errors, res) }; return nil
Conclude(errs, resp, tgt) ==
    IF Len(errs) > 0
    THEN Parsed(NewGraphQLError(errs, resp), "nil", tgt, FALSE)
    ELSE Parsed(NoError, "gr", tgt, FALSE)

DecodeFailed(tgt) ==
    Parsed(NewExecutionError("decoding response", "decode"), "nil", tgt, FALSE)

\* the plain branch: gr = &graphResponse{Data: resp}; json decode into gr
parsePlain(b, resp, tgt) ==
    IF ~b.json THEN DecodeFailed(tgt)
    ELSE IF b.data.shape # "null" /\ ~b.fits THEN DecodeFailed(Partial)
    ELSE Conclude(DecodeGraphErrs(b.errors), resp,
                  IF b.data.shape = "null" THEN tgt ELSE Decoded(b.data))

DecodeResults_one_entry(data) ==
    LET n == CHOOSE n \in DOMAIN data.fields : TRUE IN
    Decoded([data EXCEPT !.fields = [k \in {n} |-> data.fields[n]]])

\* mapstructure.Decode(results.Data, v): the whole map goes into the target
DecodeResults(data) == Decoded(data)

\* the loop without its break: the messages of a second payload are appended
parseMutation_all_payloads(b, resp, tgt, name) ==
    LET p == b.data.fields[name]
        others == { n \in DOMAIN b.data.fields :
                      n # name /\ ~b.data.fields[n].Successful
                        /\ ~HasNilMessage(b.data.fields[n].Messages) }
        extra == IF others = {} THEN <<>>
                 ELSE MessagesToErrs(b.data.fields[CHOOSE n \in others : TRUE].Messages)
        out == IF ~p.Successful
               THEN IF HasNilMessage(p.Messages)
                    THEN Parsed(NoError, "nil", tgt, TRUE)
                    ELSE Conclude(MessagesToErrs(p.Messages) \o extra, resp, tgt)
               ELSE IF ~b.fits THEN DecodeFailed(Partial)
               ELSE Conclude(extra, resp, DecodeResults(b.data))
    IN [out EXCEPT !.inspected = name]

\* an unsuccessful payload without messages made an error all the same
parseMutation_unsuccessful_is_error(b, resp, tgt, name) ==
    LET p == b.data.fields[name]
        out == IF ~p.Successful
               THEN IF HasNilMessage(p.Messages)
                    THEN Parsed(NoError, "nil", tgt, TRUE)
                    ELSE Parsed(NewGraphQLError(MessagesToErrs(p.Messages), resp),
                                "nil", tgt, FALSE)
               ELSE IF ~b.fits THEN DecodeFailed(Partial)
               ELSE Conclude(<<>>, resp, DecodeResults(b.data))
    IN [out EXCEPT !.inspected = name]

\* the mutation branch for the map entry the range loop yields first
parseMutation(b, resp, tgt, name) ==
    LET p == b.data.fields[name]
        out == IF ~p.Successful
               THEN IF HasNilMessage(p.Messages)
                    THEN Parsed(NoError, "nil", tgt, TRUE)
                    ELSE Conclude(MessagesToErrs(p.Messages), resp, tgt)
               ELSE IF ~b.fits THEN DecodeFailed(Partial)
               ELSE Conclude(<<>>, resp, DecodeResults(b.data))
    IN [out EXCEPT !.inspected = name]

\* the outcomes of the mutation branch: decoding into
\* struct{Data map[string]graphMutationPayload}, then the first entry of a
\* map range, whose order Go leaves unspecified
MutationOutcomes(b, resp, tgt) ==
    IF ~b.json \/ b.data.shape = "plain" THEN { DecodeFailed(tgt) }
    ELSE IF DOMAIN b.data.fields = {} THEN { Conclude(<<>>, resp, tgt) }
    ELSE { parseMutation(b, resp, tgt, n) : n \in DOMAIN b.data.fields }

(***************************************************************************)
(* Initial states: a configured client or chain, a built operation, a call *)
(* context, nothing executed yet                                           *)
(***************************************************************************)
(***************************************************************************)
(* Request construction: the defaultRequest, its JSON envelope, its        *)
(* multipart parts and the headers of the *http.Request                    *)
(***************************************************************************)
MaxCalls == 3

VarKeys == {"username", "id"}

VarValues == {"x", "y"}

HeaderKeys == {"X-Custom-Header", "content-type"}

HeaderValues == {"123", "text/plain"}

FieldNames == {"file", "avatar"}

FileNames == {"a.txt", "b.txt"}

QueryText == "query {}"

EmptyMap == [k \in {} |-> "x"]

newReq_vars_made ==
    [q |-> QueryText, vars |-> <<EmptyMap>>, files |-> <<>>, header |-> EmptyMap]

\* &defaultRequest{q: q, header: make(map[string][]string)}: vars is nil
newReq == [q |-> QueryText, vars |-> <<>>, files |-> <<>>, header |-> EmptyMap]

\* if d.vars == nil { d.vars = make(...) }; d.vars[key] = value
defaultRequest_Var(d, key, value) ==
    LET m == IF d.vars = <<>> THEN EmptyMap ELSE d.vars[1]
    IN [d EXCEPT !.vars =
          <<[k \in DOMAIN m \cup {key} |-> IF k = key THEN value ELSE m[k]]>>]

\* the canonical form http.Header gives a key
CanonicalKey(key) == IF key = "content-type" THEN "Content-Type" ELSE key

\* http.Header.Set: the values of key are replaced by the one value
Header_Set(h, key, value) ==
    [k \in DOMAIN h \cup {CanonicalKey(key)} |->
        IF k = CanonicalKey(key) THEN <<value>> ELSE h[k]]

\* http.Header.Add: the value is appended to the values of key
Header_Add(h, key, value) ==
    [k \in DOMAIN h \cup {CanonicalKey(key)} |->
        IF k = CanonicalKey(key)
        THEN (IF k \in DOMAIN h THEN h[k] ELSE <<>>) \o <<value>>
        ELSE h[k]]

defaultRequest_Header_add(d, key, value) ==
    [d EXCEPT !.header = Header_Add(d.header, key, value)]

\* d.header.Set(key, value)
defaultRequest_Header(d, key, value) ==
    [d EXCEPT !.header = Header_Set(d.header, key, value)]

\* d.files = append(d.files, File{Field, Name, R})
defaultRequest_File(d, fieldName, fileName) ==
    [d EXCEPT !.files = Append(d.files, [Field |-> fieldName, Name |-> fileName])]

JNull == [kind |-> "null"]

JObject(m) == [kind |-> "object", members |-> m]

\* json.Encode of a map[string]interface{}: a nil map is null, any other
\* map an object with one member per key
EncodeVars(v) == IF v = <<>> THEN JNull ELSE JObject(v[1])

\* json.Encode of queryPayload{Query: request.Query(), Variables: request.Vars()}
jsonEnvelope(d) ==
    [kind |-> "json", query |-> d.q, variables |-> EncodeVars(d.vars)]

FormField(name, value) ==
    [name |-> name, filename |-> "", value |-> value]

FormFile(field, name) ==
    [name |-> field, filename |-> name, value |-> "stream"]

\* len(request.Vars()) of a nil-able map
LenVars(v) == IF v = <<>> THEN 0 ELSE Cardinality(DOMAIN v[1])

multipartParts_always_variables(d) ==
    <<FormField("query", d.q), FormField("variables", EncodeVars(d.vars))>>
      \o [i \in 1..Len(d.files) |-> FormFile(d.files[i].Field, d.files[i].Name)]

\* WriteField("query"), the variables field if len(Vars()) > 0, then
\* CreateFormFile(Field, Name) for each file in order
multipartParts(d) ==
    <<FormField("query", d.q)>>
      \o (IF LenVars(d.vars) > 0
          THEN <<FormField("variables", EncodeVars(d.vars))>>
          ELSE <<>>)
      \o [i \in 1..Len(d.files) |-> FormFile(d.files[i].Field, d.files[i].Name)]

\* the request body and its mime type
encodeBody(d, multipart) ==
    IF multipart
    THEN [body |-> [kind |-> "multipart", parts |-> multipartParts(d)],
          mimeType |-> "multipart/form-data"]
    ELSE [body |-> jsonEnvelope(d), mimeType |-> "application/json; charset=utf-8"]

AddHeaders_set(base, h) ==
    [k \in DOMAIN base \cup DOMAIN h |-> IF k \in DOMAIN h THEN h[k] ELSE base[k]]

\* for key, values := range request.Headers() { for _, value := range
\* values { r.Header.Add(key, value) } }: the keys are distinct, so the range
\* order does not show
AddHeaders(base, h) ==
    [k \in DOMAIN base \cup DOMAIN h |->
        (IF k \in DOMAIN base THEN base[k] ELSE <<>>)
          \o (IF k \in DOMAIN h THEN h[k] ELSE <<>>)]

\* r.Header.Set("Content-Type", mimeType); r.Header.Set("Accept", ...); then
\* the headers of the operation are added
requestHeader(mimeType, h) ==
    AddHeaders(Header_Set(Header_Set(EmptyMap, "Content-Type", mimeType),
                          "Accept", "application/json; charset=utf-8"), h)

NotBuilt == [header |-> EmptyMap, body |-> [kind |-> "none"]]

IdleReq ==
    /\ req = newReq
    /\ calls = <<>>
    /\ httpRequest = NotBuilt
    /\ builtAt = 0

(***************************************************************************)
(* Concurrent executions: the steps of chain.Action as functions of the    *)
(* shared chain and of the *chainState each execution received from start  *)
(***************************************************************************)
Executions == {1, 2}

\* &chain{endpoint, httpClient: http.DefaultClient, log} after its options
NewChain(endpointValid, multipart) ==
    [endpointOK |-> endpointValid, useMultipartForm |-> multipart, closeReq |-> FALSE,
     httpClient |-> "http.DefaultClient", log |-> "func(string) {}"]

\* &chainState{origin: d, operation: o}
NewChainState(o) ==
    [error |-> NoError, request |-> "none", response |-> NoResponse, operation |-> o,
     panicked |-> FALSE]

chainState_validate(d, c) ==
    IF CannotSendFiles(c.operation.files, d.useMultipartForm)
    THEN [c EXCEPT !.error =
            NewExecutionError("", "cannot send files with PostFields option")]
    ELSE c

\* a failed body encoder or a failed http.NewRequest ends in a nil dereference
chainState_createRequest(d, c) ==
    IF c.error.kind = "nil"
    THEN LET enc == createRequestBody(c.operation, d.useMultipartForm, TRUE) IN
         IF ~enc.ok THEN [c EXCEPT !.error = enc.err, !.panicked = TRUE]
         ELSE IF ~d.endpointOK
         THEN [c EXCEPT !.error = NewExecutionError("", "new request"),
                        !.panicked = TRUE]
         ELSE [c EXCEPT !.request = "built"]
    ELSE c

\* reply is what origin.httpClient.Do answers to this request
chainState_call(d, c, reply) ==
    IF c.error.kind = "nil"
    THEN IF ~reply.doOK THEN [c EXCEPT !.error = DoFailed("transport")]
         ELSE LET resp == [status |-> reply.status, closed |-> FALSE] IN
              [c EXCEPT !.response = resp,
                        !.error = IF ~StatusAccepted(reply.status)
                                  THEN NewRequestError(resp) ELSE c.error]
    ELSE c

\* what an execution ends with
Pending == [kind |-> "pending"]

Panicked == [kind |-> "panic"]

ReturnedWith(err, res, tgt) ==
    [kind |-> "returned", error |-> err, result |-> res, target |-> tgt]

\* the bodies replied hold at most one data field, so the mutation branch
\* has one outcome
chainState_parseResponse(c, reply) ==
    IF c.error.kind # "nil" THEN ReturnedWith(c.error, "nil", Untouched)
    ELSE LET out == IF c.operation.isMutation
                    THEN CHOOSE o \in MutationOutcomes(reply.body, c.response, Untouched) :
                            TRUE
                    ELSE parsePlain(reply.body, c.response, Untouched)
         IN IF out.panic THEN Panicked
            ELSE ReturnedWith(out.err, out.result, out.target)

\* d.start(o).validate().createRequest().call().parseResponse() run by itself
ActionAlone(d, o, reply) ==
    LET c == chainState_createRequest(d, chainState_validate(d, NewChainState(o)))
    IN IF c.panicked THEN Panicked
       ELSE chainState_parseResponse(chainState_call(d, c, reply), reply)

ParOperations ==
    { [isMutation |-> FALSE, vars |-> NilVars, files |-> <<>>],
      [isMutation |-> TRUE, vars |-> NilVars, files |-> <<>>],
      [isMutation |-> FALSE, vars |-> [k \in {"username"} |-> "unencodable"],
       files |-> <<>>],
      [isMutation |-> FALSE, vars |-> NilVars, files |-> <<[copyOK |-> TRUE]>>] }

\* a body that is not JSON, also standing for the body nobody reads
NoReplyBody == [json |-> FALSE, errors |-> <<>>, data |-> NullData, fits |-> FALSE]

ParBodies ==
    { NoReplyBody,
      [json |-> TRUE, errors |-> <<>>, data |-> NullData, fits |-> TRUE],
      [json |-> TRUE, errors |-> <<WireErr(Empty, Empty, s_boom, <<>>)>>,
       data |-> NullData, fits |-> TRUE] }
      \cup { [json |-> TRUE, errors |-> <<>>, fits |-> TRUE,
              data |-> [shape |-> "payloads", fields |-> [n \in {"m"} |-> p]]] :
                p \in { Payload(TRUE, <<>>, "obj"),
                        Payload(FALSE, << <<ValidationMessage(s_c1, <<>>)>> >>, "null"),
                        Payload(FALSE, << <<>> >>, "null") } }

ParReplies ==
    { [doOK |-> FALSE, status |-> 0, body |-> NoReplyBody],
      [doOK |-> TRUE, status |-> 500, body |-> NoReplyBody] }
      \cup { [doOK |-> TRUE, status |-> StatusOK, body |-> b] : b \in ParBodies }

NoFrame == [pc |-> "start", c |-> 0, ret |-> Pending]

IdlePar ==
    /\ origin = NewChain(TRUE, FALSE)
    /\ heap = <<>>
    /\ frames = <<>>
    /\ jobs = <<>>
    /\ crashed = FALSE

(***************************************************************************)
(* The addOperation round-tripper: the body is a sequence of tokens, each  *)
(* a word, one white-space character or one punctuation character; the URL *)
(* query is a sequence of key=value pairs                                  *)
(***************************************************************************)
MaxBody == 4

Keywords == {"query", "mutation"}

Words == Keywords \cup {"FooBar"}

Tokens == Words \cup {" ", "{"}

\* texts in which no two words are adjacent (they would be one word)
BodyTexts ==
    { b \in SeqUpTo(Tokens, MaxBody) :
        \A i \in 1..(Len(b) - 1) : ~(b[i] \in Words /\ b[i + 1] \in Words) }

Pair(k, v) == [k |-> k, v |-> v]

RawQueries ==
    { <<>>, <<Pair("z", "1"), Pair("a", "2")>>, <<Pair("operation", "Old")>> }

\* the order in which url.Values.Encode writes the keys
SortedKeys == <<"a", "operation", "z">>

\* r.URL.Query(): the values of each key, in their order in the raw query
url_Query(raw) ==
    [k \in { raw[i].k : i \in 1..Len(raw) } |->
        LET own == SelectSeq(raw, LAMBDA p : p.k = k)
        IN [i \in 1..Len(own) |-> own[i].v]]

\* values.Add(key, value)
Values_Add(values, key, value) ==
    [k \in DOMAIN values \cup {key} |->
        IF k = key
        THEN (IF k \in DOMAIN values THEN values[k] ELSE <<>>) \o <<value>>
        ELSE values[k]]

RECURSIVE EncodeFrom(_, _)
EncodeFrom(values, i) ==
    IF i > Len(SortedKeys) THEN <<>>
    ELSE (IF SortedKeys[i] \in DOMAIN values
          THEN [j \in 1..Len(values[SortedKeys[i]]) |->
                  Pair(SortedKeys[i], values[SortedKeys[i]][j])]
          ELSE <<>>) \o EncodeFrom(values, i + 1)

\* values.Encode(): key=value pairs sorted by key
Values_Encode(values) == EncodeFrom(values, 1)

\* the starts of the matches of ((?:query\s)|(?:mutation\s))(\w+)
Matches(b) ==
    { i \in 1..(Len(b) - 2) :
        b[i] \in Keywords /\ b[i + 1] = " " /\ b[i + 2] \in Words }

\* string(regex.FindAllSubmatch(b, -1)[0][2]), "" without a match
FindName(b) ==
    IF Matches(b) = {} THEN ""
    ELSE b[(CHOOSE i \in Matches(b) : \A j \in Matches(b) : i <= j) + 2]

\* getOperationName once r.GetBody has been called: "" when the copy of the
\* body cannot be had or read
getOperationName(r) ==
    IF r.getBody = "fails" THEN ""
    ELSE IF ~r.readOK THEN ""
    ELSE FindName(r.body)

NoTrip ==
    [body |-> <<>>, getBody |-> "ok", readOK |-> TRUE, rawQuery |-> <<>>,
     sent |-> <<>>, inner |-> 0, pc |-> "idle"]

(***************************************************************************)
(* Construction of a Client or a chain from its options                    *)
(***************************************************************************)
MaxOptions == 3

\* WithHTTPClient is given a client, an untyped nil, or a nil *http.Client
ClientOptions ==
    { [fn |-> "WithHTTPClient", arg |-> a] : a \in {"custom", "nil", "typed nil"} }
      \cup { [fn |-> "UseMultipartForm", arg |-> ""],
             [fn |-> "ImmediatelyCloseReqBody", arg |-> ""] }

\* optionFunc(c)
ApplyOption(c, o) ==
    CASE o.fn = "WithHTTPClient" -> [c EXCEPT !.httpClient = o.arg]
      [] o.fn = "UseMultipartForm" -> [c EXCEPT !.useMultipartForm = TRUE]
      [] OTHER -> [c EXCEPT !.closeReq = TRUE]

\* &Client{endpoint, Log} and &chain{endpoint, httpClient: http.DefaultClient, log}
Allocated(kind) ==
    [httpClient |-> IF kind = "chain" THEN "http.DefaultClient" ELSE "nil",
     useMultipartForm |-> FALSE, closeReq |-> FALSE]

\* NewClient: if c.httpClient == nil { c.httpClient = http.DefaultClient };
\* NewChain returns the chain as the options left it
DefaultTransport(kind, c) ==
    IF kind = "client" /\ c.httpClient = "nil"
    THEN [c EXCEPT !.httpClient = "http.DefaultClient"]
    ELSE c

\* Do on a nil interface or on a nil *http.Client dereferences nil
NilTransport(c) == c.httpClient \in {"nil", "typed nil"}

NotMade == [kind |-> "none", opts |-> <<>>, c |-> Allocated("client"), pc |-> "idle"]

IdleAux ==
    /\ trip = NoTrip
    /\ made = NotMade

InitPipe ==
    /\ impl \in {"client", "chain"}
    /\ useMultipartForm \in BOOLEAN
    /\ endpointOK \in BOOLEAN
    /\ op \in Operations
    /\ ctxDone \in (IF impl = "client" THEN BOOLEAN ELSE {FALSE})
    /\ writerCloseOK \in (IF useMultipartForm THEN BOOLEAN ELSE {TRUE})
    /\ pc = "start"
    /\ error = NoError
    /\ request = "none"
    /\ response = NoResponse
    /\ body = NoBody
    /\ doCalls = 0
    /\ encodeCalls = 0
    /\ filesRead = <<>>
    /\ result = "none"
    /\ target \in {Untouched, NilTarget}
    /\ inspected = "none"
    /\ branch = "none"

IdleErr ==
    /\ gerrs = <<>>
    /\ gout = [fn |-> "none", val |-> <<>>]
    /\ gresp = <<>>
    /\ gmsg = Empty

Init == InitPipe /\ IdleErr /\ IdleReq /\ IdlePar /\ IdleAux

(***************************************************************************)
(* chain.Action = start(o).validate().createRequest().call().parseResponse *)
(***************************************************************************)
validate ==
    /\ impl = "chain" /\ pc = "start"
    /\ error' = IF CannotSendFiles(op.files, useMultipartForm)
                THEN NewExecutionError("", "cannot send files with PostFields option")
                ELSE error
    /\ pc' = "validated"
    /\ UNCHANGED <<impl, useMultipartForm, endpointOK, ctxDone, op, writerCloseOK,
                   request, response, body, doCalls, encodeCalls, filesRead, result,
                   target,
                   inspected, branch, errVars, reqVars, parVars, auxVars>>

\* When createRequestBody fails, c.error is set and execution goes on to
\* http.NewRequest with a nil *bytes.Buffer, whose Len() dereferences nil;
\* when http.NewRequest fails, r is nil and r.Close dereferences nil.
createRequest ==
    /\ impl = "chain" /\ pc = "validated"
    /\ IF StageRuns(error)
       THEN LET enc == createRequestBody(op, useMultipartForm, writerCloseOK) IN
            /\ encodeCalls' = encodeCalls + 1
            /\ filesRead' = filesRead \o enc.read
            /\ IF ~enc.ok
               THEN /\ error' = enc.err
                    /\ pc' = "panic"
                    /\ request' = request
               ELSE IF ~endpointOK
               THEN /\ error' = NewExecutionError("", "new request")
                    /\ pc' = "panic"
                    /\ request' = request
               ELSE /\ error' = error
                    /\ pc' = "requested"
                    /\ request' = "built"
       ELSE /\ pc' = "requested"
            /\ UNCHANGED <<error, request, encodeCalls, filesRead>>
    /\ UNCHANGED <<impl, useMultipartForm, endpointOK, ctxDone, op, writerCloseOK,
                   response, body, doCalls, result, target,
                   inspected, branch, errVars, reqVars, parVars, auxVars>>

call ==
    /\ impl = "chain" /\ pc = "requested"
    /\ IF StageRuns(error)
       THEN /\ doCalls' = doCalls + 1
            /\ \/ /\ error' = DoFailed("transport")
                  /\ response' = response
               \/ \E st \in Statuses :
                    LET resp == [status |-> st, closed |-> FALSE] IN
                    /\ response' = resp
                    /\ error' = IF ~StatusAccepted(st) THEN NewRequestError(resp)
                                ELSE error
       ELSE UNCHANGED <<doCalls, error, response>>
    /\ pc' = "called"
    /\ UNCHANGED <<impl, useMultipartForm, endpointOK, ctxDone, op, writerCloseOK,
                   request, body, encodeCalls, filesRead, result, target,
                   inspected, branch, errVars, reqVars, parVars, auxVars>>

CanHold_any(tgt, b) == TRUE

\* gr = &graphResponse{Data: resp} with resp = nil: "data" is decoded into an
\* empty interface, which holds any JSON value
CanHold(tgt, b) == tgt = NilTarget /\ b.json => b.fits

\* reading and interpreting the body of the response in hand; the deferred
\* Body.Close runs on every way out of this part. Action returns a
\* *GraphResponse next to the error, Run returns the error alone.
Interpret(mutationBranch, returnsResult) ==
    /\ response' = [response EXCEPT !.closed = TRUE]
    /\ \E b \in Bodies, readOK \in BOOLEAN :
         /\ CanHold(target, b)
         /\ IF ~readOK
            THEN /\ body' = [NoBody EXCEPT !.read = "failed"]
                 /\ error' = NewExecutionError("reading body", "read")
                 /\ result' = IF returnsResult THEN "nil" ELSE result
                 /\ target' = target
                 /\ inspected' = inspected
                 /\ branch' = branch
                 /\ pc' = "done"
            ELSE /\ body' = [json |-> b.json, errors |-> b.errors, data |-> b.data,
                             fits |-> b.fits, read |-> "yes"]
                 /\ branch' = IF mutationBranch THEN "mutation" ELSE "plain"
                 /\ \E out \in (IF mutationBranch
                                THEN MutationOutcomes(b, response, target)
                                ELSE { parsePlain(b, response, target) }) :
                      /\ error' = out.err
                      /\ result' = IF returnsResult /\ ~out.panic THEN out.result ELSE result
                      /\ target' = IF target = NilTarget THEN target ELSE out.target
                      /\ inspected' = out.inspected
                      /\ pc' = IF out.panic THEN "panic" ELSE "done"

parseResponse ==
    /\ impl = "chain" /\ pc = "called"
    /\ IF StageRuns(error)
       THEN Interpret(op.isMutation, TRUE)
       ELSE /\ result' = "nil"
            /\ pc' = "done"
            /\ UNCHANGED <<error, response, body, target, inspected, branch>>
    /\ UNCHANGED <<impl, useMultipartForm, endpointOK, ctxDone, op, writerCloseOK,
                   request, doCalls, encodeCalls, filesRead, errVars, reqVars, parVars, auxVars>>

(***************************************************************************)
(* Client.Run, runWithJSON, runWithPostFields                              *)
(***************************************************************************)
\* the context check, the file check and the choice of the encoding
Run ==
    /\ impl = "client" /\ pc = "start"
    /\ IF ContextDone(ctxDone)
       THEN /\ error' = NewExecutionError("", "context canceled")
            /\ pc' = "done"
       ELSE IF CannotSendFiles(op.files, useMultipartForm)
       THEN /\ error' = NewExecutionError("", "cannot send files with PostFields option")
            /\ pc' = "done"
       ELSE /\ error' = error
            /\ pc' = "validated"
    /\ UNCHANGED <<impl, useMultipartForm, endpointOK, ctxDone, op, writerCloseOK,
                   request, response, body, doCalls, encodeCalls, filesRead, result,
                   target,
                   inspected, branch, errVars, reqVars, parVars, auxVars>>

\* encoding of the body and http.NewRequest, each returning on failure
runEncode ==
    /\ impl = "client" /\ pc = "validated"
    /\ LET enc == createRequestBody(op, useMultipartForm, writerCloseOK) IN
       /\ encodeCalls' = encodeCalls + 1
       /\ filesRead' = filesRead \o enc.read
       /\ IF ~enc.ok
          THEN /\ error' = enc.err
               /\ pc' = "done"
               /\ request' = request
          ELSE IF ~endpointOK
          THEN /\ error' = NewExecutionError("", "new request")
               /\ pc' = "done"
               /\ request' = request
          ELSE /\ error' = error
               /\ pc' = "requested"
               /\ request' = "built"
    /\ UNCHANGED <<impl, useMultipartForm, endpointOK, ctxDone, op, writerCloseOK,
                   response, body, doCalls, result, target,
                   inspected, branch, errVars, reqVars, parVars, auxVars>>

\* c.httpClient.Do(r) and the status check
runDo ==
    /\ impl = "client" /\ pc = "requested"
    /\ doCalls' = doCalls + 1
    /\ \/ /\ error' = DoFailed("transport")
          /\ response' = response
          /\ pc' = "done"
       \/ \E st \in Statuses :
            LET resp == [status |-> st, closed |-> FALSE] IN
            /\ response' = resp
            /\ IF ~StatusAccepted(st)
               THEN error' = NewRequestError(resp) /\ pc' = "done"
               ELSE error' = error /\ pc' = "called"
    /\ UNCHANGED <<impl, useMultipartForm, endpointOK, ctxDone, op, writerCloseOK,
                   request, body, encodeCalls, filesRead, result, target,
                   inspected, branch, errVars, reqVars, parVars, auxVars>>

\* runWithJSON switches on the operation's type; runWithPostFields always
\* decodes the plain envelope
runParse ==
    /\ impl = "client" /\ pc = "called"
    /\ Interpret(op.isMutation /\ ~useMultipartForm, FALSE)
    /\ UNCHANGED <<impl, useMultipartForm, endpointOK, ctxDone, op, writerCloseOK,
                   request, doCalls, encodeCalls, filesRead, errVars, reqVars, parVars, auxVars>>

Next ==
    \/ validate
    \/ createRequest
    \/ call
    \/ parseResponse
    \/ Run
    \/ runEncode
    \/ runDo
    \/ runParse

Spec == Init /\ [][Next]_vars

(***************************************************************************)
(* Error Taxonomy: the GraphQL-level error and its accessors, in each of   *)
(* the versions the repository holds                                       *)
(***************************************************************************)
GraphErrs ==
    { GraphErr(Empty, Empty, s_boom, <<>>),
      GraphErr(s_ER, Empty, s_oops, <<s_field, s_path>>),
      GraphErr(Empty, s_XC, Empty, <<>>),
      GraphErr(s_C2, s_XC, s_boom, <<s_field>>),
      GraphErr(Empty, Empty, s_oops, <<s_path>>) }

ErrCode_extension_first(e) ==
    IF Len(e.ExtCode) > 0 THEN ToLower(e.ExtCode)
    ELSE IF Len(e.Code) > 0 THEN ToLower(e.Code)
    ELSE Empty

\* GraphError.ErrCode / GraphErr.ErrCode
ErrCode(e) ==
    IF Len(e.Code) > 0 THEN ToLower(e.Code)
    ELSE IF Len(e.ExtCode) > 0 THEN ToLower(e.ExtCode)
    ELSE Empty

\* strings.Join(e.Path, ".")
ErrPath(e) == Join(e.Path, <<".">>)

\* GraphError.Error of unnamed/part_004 (second file)
GraphError_Error(e) == e.Message

\* GraphErr.Error of unnamed/part_005
GraphErr_Error(e) ==
    IF Len(e.Path) > 0 THEN ErrPath(e) \o <<":", " ">> \o e.Message ELSE e.Message

\* GraphErr.Error of unnamed/part_004 (first file)
GraphErr_Error_coded(e) ==
    LET message == IF Len(ErrCode(e)) > 0
                   THEN e.Message \o <<" ", "c", "o", "d", "e", ":", " ">> \o ErrCode(e)
                   ELSE e.Message
    IN IF Len(e.Path) > 0 THEN ErrPath(e) \o <<":", " ">> \o message
       ELSE <<"g", "r", "a", "p", "h", "q", "l", ":", " ">> \o message

\* graphErr.Error of error.go's entry type, which the sources do not hold
graphErr_Error(e) == e.Message

\* without the length test, indexing an empty slice panics
GraphRequestError_Error_unguarded(errors) ==
    IF Len(errors) = 0 THEN <<"panic">> ELSE GraphError_Error(errors[Len(errors)])

\* GraphRequestError.Error
GraphRequestError_Error(errors) ==
    IF Len(errors) > 0 THEN GraphError_Error(errors[Len(errors)]) ELSE Empty

\* GraphQLError.Error of unnamed/part_005
GraphQLError_Error(errors) ==
    IF Len(errors) > 0 THEN GraphErr_Error(errors[Len(errors)]) ELSE Empty

\* GraphQLError.Error of unnamed/part_004 (first file)
GraphQLError_Error_coded(errors) ==
    IF Len(errors) > 0 THEN GraphErr_Error_coded(errors[Len(errors)]) ELSE Empty

\* GraphQLError.Error of error.go
GraphQLError_Error_v0(errors) ==
    IF Len(errors) > 0 THEN graphErr_Error(errors[1]) ELSE Empty

\* var errors []string; for _, err := range g.errors { append(errors, err.Error()) }
GraphRequestError_Errors(errors) ==
    [i \in 1..Len(errors) |-> GraphError_Error(errors[i])]

\* the same loop over entries whose Error() puts the path in front
GraphQLError_Errors(errors) ==
    [i \in 1..Len(errors) |-> GraphErr_Error(errors[i])]

\* the same loop over entries whose Error() adds "graphql: ", code and path
GraphQLError_Errors_coded(errors) ==
    [i \in 1..Len(errors) |-> GraphErr_Error_coded(errors[i])]

GraphRequestError_Code_first(errors) ==
    IF Len(errors) > 0 THEN ErrCode(errors[1]) ELSE Empty

\* GraphRequestError.Code: errors[len(errors)-1].ErrCode(), "" for no entries
GraphRequestError_Code(errors) ==
    IF Len(errors) > 0 THEN ErrCode(errors[Len(errors)]) ELSE Empty

\* GraphQLError.Code of unnamed/part_005
GraphQLError_Code(errors) ==
    IF Len(errors) > 0 THEN ErrCode(errors[Len(errors)]) ELSE Empty

\* errorDetail{code, message, domain}
Detail(code, message, domain) == [code |-> code, message |-> message, domain |-> domain]

\* GraphError.ToErrorDetail
ToErrorDetail(e) == Detail(ErrCode(e), e.Message, ErrPath(e))

\* GraphErr.ToErrorDetail of unnamed/part_005
GraphErr_ToErrorDetail(e) == Detail(ErrCode(e), e.Message, ErrPath(e))

GraphRequestError_Details_reversed(errors) ==
    [i \in 1..Len(errors) |-> ToErrorDetail(errors[Len(errors) + 1 - i])]

\* GraphRequestError.Details: one detail per entry, in order
GraphRequestError_Details(errors) ==
    [i \in 1..Len(errors) |-> ToErrorDetail(errors[i])]

\* GraphQLError.Details of unnamed/part_005
GraphQLError_Details(errors) ==
    [i \in 1..Len(errors) |-> GraphErr_ToErrorDetail(errors[i])]

(***************************************************************************)
(* Error Taxonomy: the request error and the execution error               *)
(***************************************************************************)
Digit(d) ==
    CASE d = 0 -> "0" [] d = 1 -> "1" [] d = 2 -> "2" [] d = 3 -> "3" [] d = 4 -> "4"
      [] d = 5 -> "5" [] d = 6 -> "6" [] d = 7 -> "7" [] d = 8 -> "8" [] OTHER -> "9"

\* strconv.Itoa for a non-negative number
RECURSIVE Itoa(_)
Itoa(n) == IF n < 10 THEN <<Digit(n)>> ELSE Itoa(n \div 10) \o <<Digit(n % 10)>>

\* http.StatusText for the status codes of the model; "" for an unknown code
StatusText(code) ==
    CASE code = 200 -> <<"O", "K">>
      [] code = 201 -> <<"C", "r", "e", "a", "t", "e", "d">>
      [] code = 204 -> <<"N", "o", " ", "C", "o", "n", "t", "e", "n", "t">>
      [] code = 404 -> <<"N", "o", "t", " ", "F", "o", "u", "n", "d">>
      [] code = 500 -> <<"I", "n", "t", "e", "r", "n", "a", "l", " ", "S", "e", "r", "v", "e", "r", " ", "E", "r", "r", "o", "r">>
      [] OTHER -> Empty

\* &http.Response{Status: status, StatusCode: code}
HttpResponse(code, status) == [StatusCode |-> code, Status |-> status]

\* the status line of a response: the status text, as the tests build it, or
\* the code and the text, as the transport of the pipeline tests reports it
StatusLines(code) == { StatusText(code), Itoa(code) \o <<" ">> \o StatusText(code) }

\* a *http.Response given to a constructor: <<>> is nil
Responses ==
    {<<>>} \cup UNION { { <<HttpResponse(c, l)>> : l \in StatusLines(c) } : c \in Statuses }

\* the text of the error given to NewExecutionError
Causes == {s_boom, s_oops}

s_request_failed ==
    <<"r", "e", "q", "u", "e", "s", "t", " ", "f", "a", "i", "l", "e", "d", " ", "w", "i", "t", "h", " ", "s", "t", "a", "t", "u", "s", ":", " ">>

s_defaultRequest_failed ==
    <<"d", "e", "f", "a", "u", "l", "t", "R", "e", "q", "u", "e", "s", "t", " ", "f", "a", "i", "l", "e", "d", " ", "w", "i", "t", "h", " ", "s", "t", "a", "t", "u", "s", ":", " ">>

\* NewHTTPRequestError(response)
NewHTTPRequestError(resp) == [response |-> resp]

HttpRequestError_Response(r) == r.response

\* fmt.Sprintf("defaultRequest failed with status: %s", r.response.Status)
HttpRequestError_Error(r) == s_defaultRequest_failed \o r.response[1].Status

HttpRequestError_Errors(r) == <<HttpRequestError_Error(r)>>

HttpRequestError_Code_text(r) ==
    IF r.response # <<>> THEN StatusText(r.response[1].StatusCode) ELSE Empty

\* strconv.Itoa(r.response.StatusCode), "" without a response
HttpRequestError_Code(r) ==
    IF r.response # <<>> THEN Itoa(r.response[1].StatusCode) ELSE Empty

HttpRequestError_Details_two(r) ==
    << Detail(HttpRequestError_Code(r), HttpRequestError_Error(r), Empty),
       Detail(HttpRequestError_Code(r), HttpRequestError_Error(r), Empty) >>

\* one errorDetail{code: r.Code(), message: r.Error()}
HttpRequestError_Details(r) ==
    << Detail(HttpRequestError_Code(r), HttpRequestError_Error(r), Empty) >>

\* the request error of unnamed/part_005: NewRequestError(response)
RequestErrorOf(resp) == [response |-> resp]

RequestError_Response(r) == r.response

\* fmt.Sprintf("request failed with status: %s", r.response.Status)
RequestError_Error(r) == s_request_failed \o r.response[1].Status

RequestError_Errors(r) == <<RequestError_Error(r)>>

\* http.StatusText(r.response.StatusCode)
RequestError_Code(r) == StatusText(r.response[1].StatusCode)

\* []ErrorDetail{{Code: r.Code(), Message: r.Error()}}
RequestError_Details(r) ==
    << Detail(RequestError_Code(r), RequestError_Error(r), Empty) >>

\* NewExecutionResponseError(message, response); NewExecutionError(message)
\* is NewExecutionResponseError(message, nil)
NewExecutionResponseError(message, resp) ==
    [message |-> message, response |-> resp]

ExecutionError_Response(e) == e.response

\* e.message.Error()
ExecutionError_Error(e) == e.message

ExecutionError_Code_empty(e) == Empty

\* strconv.Itoa(e.response.StatusCode) when a response is attached, else ""
ExecutionError_Code(e) ==
    IF e.response # <<>> THEN Itoa(e.response[1].StatusCode) ELSE Empty

\* one errorDetail{code: e.Code(), message: e.Error()}
ExecutionError_Details(e) ==
    << Detail(ExecutionError_Code(e), ExecutionError_Error(e), Empty) >>

\* the execution error of unnamed/part_005, which holds no response
ExecutionErrorV2(message) == [message |-> message]

ExecutionErrorV2_Response(e) == <<>>

ExecutionErrorV2_Error(e) == e.message

ExecutionErrorV2_Code(e) == Empty

ExecutionErrorV2_Details(e) ==
    << Detail(ExecutionErrorV2_Code(e), ExecutionErrorV2_Error(e), Empty) >>

InitErr ==
    /\ impl = "none"
    /\ useMultipartForm = FALSE
    /\ endpointOK = TRUE
    /\ op = [isMutation |-> FALSE, vars |-> NilVars, files |-> <<>>]
    /\ ctxDone = FALSE
    /\ writerCloseOK = TRUE
    /\ pc = "idle"
    /\ error = NoError
    /\ request = "none"
    /\ response = NoResponse
    /\ body = NoBody
    /\ doCalls = 0
    /\ encodeCalls = 0
    /\ filesRead = <<>>
    /\ result = "none"
    /\ target = Untouched
    /\ inspected = "none"
    /\ branch = "none"
    /\ gerrs \in SeqUpTo(GraphErrs, MaxErrors)
    /\ gresp \in Responses
    /\ gmsg \in Causes
    /\ gout = [fn |-> "none", val |-> <<>>]
    /\ IdleReq
    /\ IdlePar
    /\ IdleAux

CallGraphRequestErrorError ==
    /\ gout' = [fn |-> "GraphRequestError.Error", val |-> GraphRequestError_Error(gerrs)]
    /\ UNCHANGED <<gerrs, gresp, gmsg>>
    /\ UNCHANGED <<pipeVars, reqVars, parVars, auxVars>>

CallGraphQLErrorError ==
    /\ gout' = [fn |-> "GraphQLError.Error", val |-> GraphQLError_Error(gerrs)]
    /\ UNCHANGED <<gerrs, gresp, gmsg>>
    /\ UNCHANGED <<pipeVars, reqVars, parVars, auxVars>>

CallGraphQLErrorErrorCoded ==
    /\ gout' = [fn |-> "GraphQLError.Error/coded", val |-> GraphQLError_Error_coded(gerrs)]
    /\ UNCHANGED <<gerrs, gresp, gmsg>>
    /\ UNCHANGED <<pipeVars, reqVars, parVars, auxVars>>

CallGraphQLErrorErrorV0 ==
    /\ gout' = [fn |-> "GraphQLError.Error/v0", val |-> GraphQLError_Error_v0(gerrs)]
    /\ UNCHANGED <<gerrs, gresp, gmsg>>
    /\ UNCHANGED <<pipeVars, reqVars, parVars, auxVars>>

CallGraphRequestErrorErrors ==
    /\ gout' = [fn |-> "GraphRequestError.Errors", val |-> GraphRequestError_Errors(gerrs)]
    /\ UNCHANGED <<gerrs, gresp, gmsg>>
    /\ UNCHANGED <<pipeVars, reqVars, parVars, auxVars>>

CallGraphQLErrorErrors ==
    /\ gout' = [fn |-> "GraphQLError.Errors", val |-> GraphQLError_Errors(gerrs)]
    /\ UNCHANGED <<gerrs, gresp, gmsg>>
    /\ UNCHANGED <<pipeVars, reqVars, parVars, auxVars>>

CallGraphQLErrorErrorsCoded ==
    /\ gout' = [fn |-> "GraphQLError.Errors/coded", val |-> GraphQLError_Errors_coded(gerrs)]
    /\ UNCHANGED <<gerrs, gresp, gmsg>>
    /\ UNCHANGED <<pipeVars, reqVars, parVars, auxVars>>

CallGraphRequestErrorCode ==
    /\ gout' = [fn |-> "GraphRequestError.Code", val |-> GraphRequestError_Code(gerrs)]
    /\ UNCHANGED <<gerrs, gresp, gmsg>>
    /\ UNCHANGED <<pipeVars, reqVars, parVars, auxVars>>

CallGraphQLErrorCode ==
    /\ gout' = [fn |-> "GraphQLError.Code", val |-> GraphQLError_Code(gerrs)]
    /\ UNCHANGED <<gerrs, gresp, gmsg>>
    /\ UNCHANGED <<pipeVars, reqVars, parVars, auxVars>>

CallGraphRequestErrorDetails ==
    /\ gout' = [fn |-> "GraphRequestError.Details", val |-> GraphRequestError_Details(gerrs)]
    /\ UNCHANGED <<gerrs, gresp, gmsg>>
    /\ UNCHANGED <<pipeVars, reqVars, parVars, auxVars>>

CallGraphQLErrorDetails ==
    /\ gout' = [fn |-> "GraphQLError.Details", val |-> GraphQLError_Details(gerrs)]
    /\ UNCHANGED <<gerrs, gresp, gmsg>>
    /\ UNCHANGED <<pipeVars, reqVars, parVars, auxVars>>

\* ErrCode of every entry of the list
CallErrCode ==
    /\ gout' = [fn |-> "GraphError.ErrCode", val |-> [i \in 1..Len(gerrs) |-> ErrCode(gerrs[i])]]
    /\ UNCHANGED <<gerrs, gresp, gmsg>>
    /\ UNCHANGED <<pipeVars, reqVars, parVars, auxVars>>

\* ErrPath of every entry of the list
CallErrPath ==
    /\ gout' = [fn |-> "GraphError.ErrPath", val |-> [i \in 1..Len(gerrs) |-> ErrPath(gerrs[i])]]
    /\ UNCHANGED <<gerrs, gresp, gmsg>>
    /\ UNCHANGED <<pipeVars, reqVars, parVars, auxVars>>

\* a request error is built from a response whose status is not 200
FailedResponse == gresp # <<>> /\ gresp[1].StatusCode # StatusOK

CallHttpRequestErrorCode ==
    /\ FailedResponse
    /\ gout' = [fn |-> "HttpRequestError.Code", val |-> HttpRequestError_Code(NewHTTPRequestError(gresp))]
    /\ UNCHANGED <<gerrs, gresp, gmsg>>
    /\ UNCHANGED <<pipeVars, reqVars, parVars, auxVars>>

CallHttpRequestErrorResponse ==
    /\ FailedResponse
    /\ gout' = [fn |-> "HttpRequestError.Response", val |-> HttpRequestError_Response(NewHTTPRequestError(gresp))]
    /\ UNCHANGED <<gerrs, gresp, gmsg>>
    /\ UNCHANGED <<pipeVars, reqVars, parVars, auxVars>>

CallHttpRequestErrorErrors ==
    /\ FailedResponse
    /\ gout' = [fn |-> "HttpRequestError.Errors", val |-> HttpRequestError_Errors(NewHTTPRequestError(gresp))]
    /\ UNCHANGED <<gerrs, gresp, gmsg>>
    /\ UNCHANGED <<pipeVars, reqVars, parVars, auxVars>>

CallHttpRequestErrorDetails ==
    /\ FailedResponse
    /\ gout' = [fn |-> "HttpRequestError.Details", val |-> HttpRequestError_Details(NewHTTPRequestError(gresp))]
    /\ UNCHANGED <<gerrs, gresp, gmsg>>
    /\ UNCHANGED <<pipeVars, reqVars, parVars, auxVars>>

CallRequestErrorCode ==
    /\ FailedResponse
    /\ gout' = [fn |-> "RequestError.Code", val |-> RequestError_Code(RequestErrorOf(gresp))]
    /\ UNCHANGED <<gerrs, gresp, gmsg>>
    /\ UNCHANGED <<pipeVars, reqVars, parVars, auxVars>>

CallRequestErrorResponse ==
    /\ FailedResponse
    /\ gout' = [fn |-> "RequestError.Response", val |-> RequestError_Response(RequestErrorOf(gresp))]
    /\ UNCHANGED <<gerrs, gresp, gmsg>>
    /\ UNCHANGED <<pipeVars, reqVars, parVars, auxVars>>

CallRequestErrorErrors ==
    /\ FailedResponse
    /\ gout' = [fn |-> "RequestError.Errors", val |-> RequestError_Errors(RequestErrorOf(gresp))]
    /\ UNCHANGED <<gerrs, gresp, gmsg>>
    /\ UNCHANGED <<pipeVars, reqVars, parVars, auxVars>>

CallRequestErrorDetails ==
    /\ FailedResponse
    /\ gout' = [fn |-> "RequestError.Details", val |-> RequestError_Details(RequestErrorOf(gresp))]
    /\ UNCHANGED <<gerrs, gresp, gmsg>>
    /\ UNCHANGED <<pipeVars, reqVars, parVars, auxVars>>

CallExecutionErrorResponse ==
    /\ gout' = [fn |-> "ExecutionError.Response", val |-> ExecutionError_Response(NewExecutionResponseError(gmsg, gresp))]
    /\ UNCHANGED <<gerrs, gresp, gmsg>>
    /\ UNCHANGED <<pipeVars, reqVars, parVars, auxVars>>

CallExecutionErrorDetails ==
    /\ gout' = [fn |-> "ExecutionError.Details", val |-> ExecutionError_Details(NewExecutionResponseError(gmsg, gresp))]
    /\ UNCHANGED <<gerrs, gresp, gmsg>>
    /\ UNCHANGED <<pipeVars, reqVars, parVars, auxVars>>

\* the execution error of unnamed/part_005 is built from the message alone
CallExecutionErrorV2Response ==
    /\ gresp = <<>>
    /\ gout' = [fn |-> "ExecutionError.Response/v2", val |-> ExecutionErrorV2_Response(ExecutionErrorV2(gmsg))]
    /\ UNCHANGED <<gerrs, gresp, gmsg>>
    /\ UNCHANGED <<pipeVars, reqVars, parVars, auxVars>>

CallExecutionErrorV2Details ==
    /\ gresp = <<>>
    /\ gout' = [fn |-> "ExecutionError.Details/v2", val |-> ExecutionErrorV2_Details(ExecutionErrorV2(gmsg))]
    /\ UNCHANGED <<gerrs, gresp, gmsg>>
    /\ UNCHANGED <<pipeVars, reqVars, parVars, auxVars>>

NextErr ==
    \/ CallGraphRequestErrorError
    \/ CallGraphQLErrorError
    \/ CallGraphQLErrorErrorCoded
    \/ CallGraphQLErrorErrorV0
    \/ CallGraphRequestErrorErrors
    \/ CallGraphQLErrorErrors
    \/ CallGraphQLErrorErrorsCoded
    \/ CallGraphRequestErrorCode
    \/ CallGraphQLErrorCode
    \/ CallGraphRequestErrorDetails
    \/ CallGraphQLErrorDetails
    \/ CallErrCode
    \/ CallErrPath
    \/ CallHttpRequestErrorCode
    \/ CallHttpRequestErrorResponse
    \/ CallHttpRequestErrorErrors
    \/ CallHttpRequestErrorDetails
    \/ CallRequestErrorCode
    \/ CallRequestErrorResponse
    \/ CallRequestErrorErrors
    \/ CallRequestErrorDetails
    \/ CallExecutionErrorResponse
    \/ CallExecutionErrorDetails
    \/ CallExecutionErrorV2Response
    \/ CallExecutionErrorV2Details

SpecErr == InitErr /\ [][NextErr]_vars

(***************************************************************************)
(* Request construction: an operation is built by Var, Header and File     *)
(* calls and turned into a request in the mode of the client               *)
(***************************************************************************)
InitReq ==
    /\ impl = "none"
    /\ useMultipartForm \in BOOLEAN
    /\ endpointOK = TRUE
    /\ op \in [isMutation : BOOLEAN, vars : {NilVars}, files : {<<>>}]
    /\ ctxDone = FALSE
    /\ writerCloseOK = TRUE
    /\ pc = "idle"
    /\ error = NoError
    /\ request = "none"
    /\ response = NoResponse
    /\ body = NoBody
    /\ doCalls = 0
    /\ encodeCalls = 0
    /\ filesRead = <<>>
    /\ result = "none"
    /\ target = Untouched
    /\ inspected = "none"
    /\ branch = "none"
    /\ IdleErr
    /\ IdleReq
    /\ IdlePar
    /\ IdleAux

Var ==
    /\ Len(calls) < MaxCalls
    /\ \E key \in VarKeys, value \in VarValues :
         /\ req' = defaultRequest_Var(req, key, value)
         /\ calls' = Append(calls, [fn |-> "Var", key |-> key, value |-> value])
    /\ UNCHANGED <<httpRequest, builtAt, pipeVars, errVars, parVars, auxVars>>

Header ==
    /\ Len(calls) < MaxCalls
    /\ \E key \in HeaderKeys, value \in HeaderValues :
         /\ req' = defaultRequest_Header(req, key, value)
         /\ calls' = Append(calls, [fn |-> "Header", key |-> key, value |-> value])
    /\ UNCHANGED <<httpRequest, builtAt, pipeVars, errVars, parVars, auxVars>>

File ==
    /\ Len(calls) < MaxCalls
    /\ \E fieldName \in FieldNames, fileName \in FileNames :
         /\ req' = defaultRequest_File(req, fieldName, fileName)
         /\ calls' = Append(calls, [fn |-> "File", key |-> fieldName, value |-> fileName])
    /\ UNCHANGED <<httpRequest, builtAt, pipeVars, errVars, parVars, auxVars>>

\* the request handed to the transport: body, then headers
buildRequest ==
    /\ LET enc == encodeBody(req, useMultipartForm)
       IN httpRequest' = [header |-> requestHeader(enc.mimeType, req.header),
                          body |-> enc.body]
    /\ builtAt' = Len(calls)
    /\ UNCHANGED <<req, calls, pipeVars, errVars, parVars, auxVars>>

NextReq ==
    \/ Var
    \/ Header
    \/ File
    \/ buildRequest

SpecReq == InitReq /\ [][NextReq]_vars

(***************************************************************************)
(* Concurrent executions: two goroutines call Action on one chain, each    *)
(* with its own operation; their steps interleave freely                   *)
(***************************************************************************)
InitPar ==
    /\ impl = "chain"
    /\ useMultipartForm \in BOOLEAN
    /\ endpointOK \in BOOLEAN
    /\ op = [isMutation |-> FALSE, vars |-> NilVars, files |-> <<>>]
    /\ ctxDone = FALSE
    /\ writerCloseOK = TRUE
    /\ pc = "idle"
    /\ error = NoError
    /\ request = "none"
    /\ response = NoResponse
    /\ body = NoBody
    /\ doCalls = 0
    /\ encodeCalls = 0
    /\ filesRead = <<>>
    /\ result = "none"
    /\ target = Untouched
    /\ inspected = "none"
    /\ branch = "none"
    /\ IdleErr
    /\ IdleReq
    /\ origin = NewChain(endpointOK, useMultipartForm)
    /\ heap = <<>>
    /\ frames = [g \in Executions |-> NoFrame]
    /\ jobs \in [Executions -> [op : ParOperations, reply : ParReplies]]
    /\ crashed = FALSE
    /\ IdleAux

\* one step of execution g on the chainState it holds: the state is written
\* back, or the process ends in a panic
Step(g, c, next) ==
    /\ heap' = [heap EXCEPT ![frames[g].c] = c]
    /\ crashed' = c.panicked
    /\ frames' = [frames EXCEPT ![g].pc = IF c.panicked THEN "panic" ELSE next]

parStart ==
    \E g \in Executions :
        /\ ~crashed /\ frames[g].pc = "start"
        /\ heap' = Append(heap, NewChainState(jobs[g].op))
        /\ frames' = [frames EXCEPT ![g].pc = "validate", ![g].c = Len(heap) + 1]
        /\ UNCHANGED <<origin, jobs, crashed, pipeVars, errVars, reqVars, auxVars>>

parValidate ==
    \E g \in Executions :
        /\ ~crashed /\ frames[g].pc = "validate"
        /\ Step(g, chainState_validate(origin, heap[frames[g].c]), "createRequest")
        /\ UNCHANGED <<origin, jobs, pipeVars, errVars, reqVars, auxVars>>

parCreateRequest ==
    \E g \in Executions :
        /\ ~crashed /\ frames[g].pc = "createRequest"
        /\ Step(g, chainState_createRequest(origin, heap[frames[g].c]), "call")
        /\ UNCHANGED <<origin, jobs, pipeVars, errVars, reqVars, auxVars>>

parCall ==
    \E g \in Executions :
        /\ ~crashed /\ frames[g].pc = "call"
        /\ Step(g, chainState_call(origin, heap[frames[g].c], jobs[g].reply),
                "parseResponse")
        /\ UNCHANGED <<origin, jobs, pipeVars, errVars, reqVars, auxVars>>

parParseResponse ==
    \E g \in Executions :
        /\ ~crashed /\ frames[g].pc = "parseResponse"
        /\ LET ret == chainState_parseResponse(heap[frames[g].c], jobs[g].reply) IN
           /\ crashed' = (ret = Panicked)
           /\ frames' = [frames EXCEPT ![g].pc = IF ret = Panicked THEN "panic" ELSE "done",
                                       ![g].ret = IF ret = Panicked THEN Pending ELSE ret]
        /\ UNCHANGED <<origin, heap, jobs, pipeVars, errVars, reqVars, auxVars>>

NextPar ==
    \/ parStart
    \/ parValidate
    \/ parCreateRequest
    \/ parCall
    \/ parParseResponse

SpecPar == InitPar /\ [][NextPar]_vars

IdlePipe ==
    /\ impl = "none"
    /\ useMultipartForm = FALSE
    /\ endpointOK = TRUE
    /\ op = [isMutation |-> FALSE, vars |-> NilVars, files |-> <<>>]
    /\ ctxDone = FALSE
    /\ writerCloseOK = TRUE
    /\ pc = "idle"
    /\ error = NoError
    /\ request = "none"
    /\ response = NoResponse
    /\ body = NoBody
    /\ doCalls = 0
    /\ encodeCalls = 0
    /\ filesRead = <<>>
    /\ result = "none"
    /\ target = Untouched
    /\ inspected = "none"
    /\ branch = "none"

(***************************************************************************)
(* addOperation.RoundTrip                                                  *)
(***************************************************************************)
InitTrip ==
    /\ IdlePipe /\ IdleErr /\ IdleReq /\ IdlePar
    /\ made = NotMade
    /\ \E b \in BodyTexts, g \in {"nil", "fails", "ok"}, r \in BOOLEAN,
          q \in RawQueries :
         /\ g # "ok" => r
         /\ trip = [body |-> b, getBody |-> g, readOK |-> r, rawQuery |-> q,
                    sent |-> <<>>, inner |-> 0, pc |-> "start"]

\* r.GetBody is called without a nil check
RoundTrip ==
    /\ trip.pc = "start"
    /\ IF trip.getBody = "nil"
       THEN trip' = [trip EXCEPT !.pc = "panic"]
       ELSE LET values == url_Query(trip.rawQuery)
                operation == getOperationName(trip)
                raw == IF operation # ""
                       THEN Values_Encode(Values_Add(values, "operation", operation))
                       ELSE trip.rawQuery
            IN trip' = [trip EXCEPT !.rawQuery = raw, !.pc = "inner"]
    /\ UNCHANGED <<made, pipeVars, errVars, reqVars, parVars>>

\* return ug.inner.RoundTrip(r)
innerRoundTrip ==
    /\ trip.pc = "inner"
    /\ trip' = [trip EXCEPT !.sent = trip.rawQuery, !.inner = trip.inner + 1,
                            !.pc = "done"]
    /\ UNCHANGED <<made, pipeVars, errVars, reqVars, parVars>>

NextTrip ==
    \/ RoundTrip
    \/ innerRoundTrip

SpecTrip == InitTrip /\ [][NextTrip]_vars

(***************************************************************************)
(* NewClient / NewChain with options, then the first dispatch              *)
(***************************************************************************)
InitNew ==
    /\ IdlePipe /\ IdleErr /\ IdleReq /\ IdlePar
    /\ trip = NoTrip
    /\ \E kind \in {"client", "chain"}, opts \in SeqUpTo(ClientOptions, MaxOptions) :
         made = [kind |-> kind, opts |-> opts, c |-> Allocated(kind), pc |-> "options"]

\* for _, optionFunc := range opts { optionFunc(c) }
applyOption ==
    /\ made.pc = "options" /\ made.opts # <<>>
    /\ made' = [made EXCEPT !.c = ApplyOption(made.c, Head(made.opts)),
                            !.opts = Tail(made.opts)]
    /\ UNCHANGED <<trip, pipeVars, errVars, reqVars, parVars>>

\* the end of the constructor
construct ==
    /\ made.pc = "options" /\ made.opts = <<>>
    /\ made' = [made EXCEPT !.c = DefaultTransport(made.kind, made.c),
                            !.pc = "constructed"]
    /\ UNCHANGED <<trip, pipeVars, errVars, reqVars, parVars>>

\* c.httpClient.Do(r)
dispatch ==
    /\ made.pc = "constructed"
    /\ made' = [made EXCEPT !.pc = IF NilTransport(made.c) THEN "panic"
                                   ELSE "dispatched"]
    /\ UNCHANGED <<trip, pipeVars, errVars, reqVars, parVars>>

NextNew ==
    \/ applyOption
    \/ construct
    \/ dispatch

SpecNew == InitNew /\ [][NextNew]_vars

(***************************************************************************)
(* Properties                                                              *)
(***************************************************************************)
Returned == pc = "done"

GotResponse == response.status # 0

\* the body was read and decodes in either branch
BodyDecodes ==
    /\ body.read = "yes"
    /\ body.json
    /\ body.fits
    /\ body.data.shape \in {"null", "payloads"}

\* C1: every execution, query or mutation, that got a 2xx response whose
\* top-level errors list is non-empty returns a GraphQL-level error built
\* over that whole list, never a nil error.
C1_ErrorsDominate ==
    (Returned /\ response.status \in 200..299 /\ BodyDecodes /\ Len(body.errors) > 0)
        => (error.kind = "GraphQLError" /\ error.errors = DecodeGraphErrs(body.errors))

\* C2: a mutation that got a 2xx response in which every payload that can be
\* inspected has successful = false returns a non-nil GraphQL-level error,
\* whatever its messages list holds.
C2_UnsuccessfulIsError ==
    (/\ Returned /\ op.isMutation /\ response.status \in 200..299
     /\ body.read = "yes" /\ body.json /\ body.data.shape = "payloads"
     /\ DOMAIN body.data.fields # {}
     /\ \A n \in DOMAIN body.data.fields : ~body.data.fields[n].Successful)
        => error.kind = "GraphQLError"

C4_BodyClosedOnReturn == (Returned /\ GotResponse) => response.closed

\* C5: no execution reaches a panic; each ends by returning nil or a typed
\* error.
C5_NeverPanics == pc # "panic"

\* C6: with at least one file attached and no multipart encoding configured,
\* the transport is never invoked, no file stream is read, and the execution
\* returns an execution error.
C6_FilesNeedMultipart ==
    (Len(op.files) > 0 /\ ~useMultipartForm) =>
        /\ doCalls = 0
        /\ filesRead = <<>>
        /\ pc # "panic"
        /\ Returned => error.kind = "ExecutionError"

C6_Witness ==
    /\ Returned
    /\ impl = "chain"
    /\ Len(op.files) > 0
    /\ ~useMultipartForm
    /\ error = NewExecutionError("", "cannot send files with PostFields option")
    /\ doCalls = 0

\* C7: when the call context is already cancelled at the start, no body is
\* encoded, no file stream is read, the transport is never invoked, and the
\* first step returns an execution error.
C7_CancelledContext ==
    ctxDone =>
        /\ doCalls = 0
        /\ encodeCalls = 0
        /\ filesRead = <<>>
        /\ pc \in {"start", "done"}
        /\ Returned => error = NewExecutionError("", "context canceled")

C7_Witness ==
    /\ Returned
    /\ ctxDone
    /\ useMultipartForm
    /\ Len(op.files) > 0
    /\ error.kind = "ExecutionError"
    /\ encodeCalls = 0

\* the encoder's inputs make it fail: a variable json cannot encode, or in
\* multipart mode a file stream whose copy fails or a writer that fails to close
EncoderInputsFail ==
    \/ \E k \in DOMAIN op.vars : op.vars[k] = "unencodable"
    \/ useMultipartForm /\ \E i \in 1..Len(op.files) : ~op.files[i].copyOK
    \/ useMultipartForm /\ ~writerCloseOK

\* C8: when body encoding fails (here at an endpoint http.NewRequest accepts),
\* the execution returns an execution error whose cause is the underlying
\* failure and the transport is never invoked.
C8_EncodeFailureReturned ==
    (encodeCalls > 0 /\ EncoderInputsFail /\ endpointOK) =>
        /\ pc = "done"
        /\ error.kind = "ExecutionError"
        /\ error.cause \in {"json", "copy", "close"}
        /\ doCalls = 0

\* C9: Do is invoked at most once in an execution, and exactly once by the
\* time the call stage is over whenever the context is not cancelled, the
\* file check passes and encoding and request construction succeed.
C9_DoAtMostOnce ==
    /\ doCalls <= 1
    /\ (/\ pc \in {"called", "done", "panic"}
        /\ ~ctxDone
        /\ ~(Len(op.files) > 0 /\ ~useMultipartForm)
        /\ ~EncoderInputsFail
        /\ endpointOK) => doCalls = 1

C9_Witness ==
    /\ Returned
    /\ doCalls = 1
    /\ error = NewExecutionError("", "transport")
    /\ response = NoResponse

ErrorAccessors ==
    { "GraphRequestError.Error", "GraphQLError.Error", "GraphQLError.Error/coded",
      "GraphQLError.Error/v0" }

\* C10: for a GraphQL-level error built from N >= 1 entries, Error() is the
\* message of the last entry, undecorated, in every version of the error type.
C10_ErrorIsLastMessage ==
    (gout.fn \in ErrorAccessors /\ Len(gerrs) >= 1)
        => gout.val = gerrs[Len(gerrs)].Message

ErrorsAccessors ==
    {"GraphRequestError.Errors", "GraphQLError.Errors", "GraphQLError.Errors/coded"}

\* C11: Errors() of a GraphQL-level error built from N entries has length N
\* and its i-th element is the message of the i-th entry, in the order given
C11_ErrorsAreMessages ==
    gout.fn \in ErrorsAccessors =>
        /\ Len(gout.val) = Len(gerrs)
        /\ \A i \in 1..Len(gerrs) : gout.val[i] = gerrs[i].Message

\* C12: for a GraphQL-level error built from an empty (or nil) list, Error()
\* returns the empty string and does not fail
C12_EmptyListEmptyError ==
    gout.fn \in ErrorAccessors /\ Len(gerrs) = 0 => gout.val = Empty

C12_Witness ==
    gout.fn = "GraphRequestError.Error" /\ Len(gerrs) = 0 /\ gout.val = Empty

UpperToLower ==
    { <<"A", "a">>, <<"B", "b">>, <<"C", "c">>, <<"D", "d">>, <<"E", "e">>,
      <<"R", "r">>, <<"X", "x">> }

\* r is s with every upper-case letter replaced by its lower-case letter
IsLowerCased(r, s) ==
    /\ Len(r) = Len(s)
    /\ \A i \in 1..Len(s) :
         \/ <<s[i], r[i]>> \in UpperToLower
         \/ r[i] = s[i] /\ \A p \in UpperToLower : p[1] # s[i]

\* r is the effective code of entry e
IsEffectiveCode(r, e) ==
    IF e.Code # Empty THEN IsLowerCased(r, e.Code) ELSE IsLowerCased(r, e.ExtCode)

\* r is the segments of path joined with "."
IsJoined(r, path) ==
    CASE Len(path) = 0 -> r = Empty
      [] Len(path) = 1 -> r = path[1]
      [] Len(path) = 2 -> r = path[1] \o <<".">> \o path[2]
      [] OTHER -> FALSE

CodeAccessors == {"GraphRequestError.Code", "GraphQLError.Code"}

\* C13: for a GraphQL-level error built from N >= 1 entries, Code() is the
\* effective code of the last entry (its code when non-empty, otherwise its
\* extension code, lower-cased), whatever the earlier entries hold
C13_CodeIsLastEffectiveCode ==
    gout.fn \in CodeAccessors /\ Len(gerrs) >= 1 =>
        IsEffectiveCode(gout.val, gerrs[Len(gerrs)])

C13_Witness ==
    /\ gout.fn = "GraphRequestError.Code"
    /\ Len(gerrs) = 2
    /\ gout.val # Empty
    /\ ~IsEffectiveCode(gout.val, gerrs[1])

DetailsAccessors == {"GraphRequestError.Details", "GraphQLError.Details"}

\* C14: Details() of a GraphQL-level error built from N entries has length N
\* and its i-th element is {code: effective code of entry i, message: its
\* message, domain: its path joined with "."}
C14_DetailsPerEntry ==
    gout.fn \in DetailsAccessors =>
        /\ Len(gout.val) = Len(gerrs)
        /\ \A i \in 1..Len(gerrs) :
             /\ IsEffectiveCode(gout.val[i].code, gerrs[i])
             /\ gout.val[i].message = gerrs[i].Message
             /\ IsJoined(gout.val[i].domain, gerrs[i].Path)

C14_Witness ==
    /\ gout.fn = "GraphRequestError.Details"
    /\ Len(gerrs) = 2
    /\ gout.val[1] # gout.val[2]
    /\ gout.val[2].domain # Empty
    /\ gout.val[2].code # Empty

\* C15: the effective code of an entry is its lower-cased code when the code
\* is non-empty, otherwise its lower-cased extension code (empty when both
\* are empty); the extension code is never used when the code is non-empty;
\* the domain of an entry is its path segments joined with "."
C15_EffectiveCodeAndDomain ==
    /\ gout.fn = "GraphError.ErrCode" =>
         \A i \in 1..Len(gerrs) : IsEffectiveCode(gout.val[i], gerrs[i])
    /\ gout.fn = "GraphError.ErrPath" =>
         \A i \in 1..Len(gerrs) : IsJoined(gout.val[i], gerrs[i].Path)

C15_Witness ==
    /\ gout.fn = "GraphError.ErrCode"
    /\ \E i \in 1..Len(gerrs) :
         /\ gerrs[i].Code # Empty
         /\ gerrs[i].ExtCode # Empty
         /\ gout.val[i] # gerrs[i].Code
         /\ IsLowerCased(gout.val[i], gerrs[i].Code)

\* the decimal string of the status codes of the model
DecimalString(code) ==
    CASE code = 200 -> <<"2", "0", "0">>
      [] code = 201 -> <<"2", "0", "1">>
      [] code = 204 -> <<"2", "0", "4">>
      [] code = 404 -> <<"4", "0", "4">>
      [] code = 500 -> <<"5", "0", "0">>

Non2xx == gresp # <<>> /\ gresp[1].StatusCode \notin 200..299

\* C16: for every non-2xx response, the error returned has Code() equal to
\* the decimal string of the status code ("404", "500") and Response()
\* returning that same response
C16_CodeIsDecimalStatus ==
    Non2xx =>
      /\ gout.fn \in {"HttpRequestError.Code", "RequestError.Code"} =>
           gout.val = DecimalString(gresp[1].StatusCode)
      /\ gout.fn \in {"HttpRequestError.Response", "RequestError.Response"} =>
           gout.val = gresp

\* C16 (amended): for every non-2xx response, Response() of the error
\* returns that same response, and Code() is the decimal string of the status
\* code in HttpRequestError and the status text of the code ("Not Found") in
\* RequestError
C16_CodeByVersion ==
    Non2xx =>
      /\ gout.fn = "HttpRequestError.Code" =>
           gout.val = DecimalString(gresp[1].StatusCode)
      /\ gout.fn = "RequestError.Code" =>
           gout.val = StatusText(gresp[1].StatusCode) /\ gout.val # Empty
      /\ gout.fn \in {"HttpRequestError.Response", "RequestError.Response"} =>
           gout.val = gresp

C16_Witness ==
    /\ gout.fn = "HttpRequestError.Code"
    /\ gresp # <<>>
    /\ gresp[1].StatusCode = 404
    /\ gout.val = <<"4", "0", "4">>

\* the headline of a request error: a fixed wording followed by the status
\* line of the response
IsRequestHeadline(m) ==
    \E prefix \in {s_request_failed, s_defaultRequest_failed} :
        m = prefix \o gresp[1].Status

\* C17: for every request error, Details() has exactly one element, whose
\* code is the stringified status code of the response, whose message equals
\* Error() and whose domain is empty; Errors() is the one-element list
\* holding Error()
C17_RequestErrorDetails ==
    /\ gout.fn \in {"HttpRequestError.Details", "RequestError.Details"} =>
         /\ Len(gout.val) = 1
         /\ gout.val[1].code = DecimalString(gresp[1].StatusCode)
         /\ IsRequestHeadline(gout.val[1].message)
         /\ gout.val[1].domain = Empty
    /\ gout.fn \in {"HttpRequestError.Errors", "RequestError.Errors"} =>
         Len(gout.val) = 1 /\ IsRequestHeadline(gout.val[1])

\* C17 (amended): for every request error, Details() has exactly one
\* element, whose code equals Code() (the decimal string of the status code
\* in HttpRequestError, the status text in RequestError), whose message
\* equals Error() and whose domain is empty; Errors() is the one-element
\* list holding Error()
C17_RequestErrorDetailsByVersion ==
    /\ gout.fn = "HttpRequestError.Details" =>
         /\ Len(gout.val) = 1
         /\ gout.val[1].code = DecimalString(gresp[1].StatusCode)
         /\ gout.val[1].message = HttpRequestError_Error(NewHTTPRequestError(gresp))
         /\ IsRequestHeadline(gout.val[1].message)
         /\ gout.val[1].domain = Empty
    /\ gout.fn = "RequestError.Details" =>
         /\ Len(gout.val) = 1
         /\ gout.val[1].code = StatusText(gresp[1].StatusCode)
         /\ gout.val[1].message = RequestError_Error(RequestErrorOf(gresp))
         /\ IsRequestHeadline(gout.val[1].message)
         /\ gout.val[1].domain = Empty
    /\ gout.fn = "HttpRequestError.Errors" =>
         gout.val = <<HttpRequestError_Error(NewHTTPRequestError(gresp))>>
    /\ gout.fn = "RequestError.Errors" =>
         gout.val = <<RequestError_Error(RequestErrorOf(gresp))>>

C17_Witness ==
    /\ gout.fn = "HttpRequestError.Details"
    /\ gresp[1].StatusCode = 500
    /\ Len(gout.val) = 1
    /\ gout.val[1].code = <<"5", "0", "0">>
    /\ gout.val[1].message # Empty

\* C18: for every execution error, with or without an attached response,
\* Details() has exactly one element, whose code is the empty string and
\* whose message equals Error(); Response() is nil unless a response was
\* attached at construction
C18_ExecutionErrorDetails ==
    /\ gout.fn \in {"ExecutionError.Details", "ExecutionError.Details/v2"} =>
         /\ Len(gout.val) = 1
         /\ gout.val[1].code = Empty
         /\ gout.val[1].message = gmsg
    /\ gout.fn \in {"ExecutionError.Response", "ExecutionError.Response/v2"} =>
         gout.val = gresp

\* C18 (amended): for every execution error, Details() has exactly one
\* element, whose message equals Error() and whose code is the empty string
\* when no response is attached and the decimal string of the attached
\* response's status code when one is; Response() is nil unless a response
\* was attached at construction
C18_ExecutionErrorDetailsByResponse ==
    /\ gout.fn \in {"ExecutionError.Details", "ExecutionError.Details/v2"} =>
         /\ Len(gout.val) = 1
         /\ gout.val[1].code =
              IF gresp = <<>> THEN Empty ELSE DecimalString(gresp[1].StatusCode)
         /\ gout.val[1].message = gmsg
    /\ gout.fn \in {"ExecutionError.Response", "ExecutionError.Response/v2"} =>
         gout.val = gresp

C18_Witness ==
    /\ gout.fn = "ExecutionError.Details"
    /\ gresp # <<>>
    /\ Len(gout.val) = 1
    /\ gout.val[1].code = <<"5", "0", "0">>
    /\ gout.val[1].message = gmsg

\* the payload the mutation branch looked at
InspectedPayload == body.data.fields[inspected]

\* C19: for a mutation whose inspected payload has successful = false and
\* messages m1..mN, execution returns a GraphQL-level error with exactly N
\* entries in the order of the messages; entry i has the message of mi (""
\* when it is null or absent), the code of mi and an empty path, and
\* Details()[i] is {code: effective code of mi.code, message, domain ""}
C19_MessagesBecomeEntries ==
    Returned /\ inspected # "none" /\ ~InspectedPayload.Successful =>
        LET m == InspectedPayload.Messages
            details == GraphQLError_Details(error.errors)
        IN /\ error.kind = "GraphQLError"
           /\ Len(error.errors) = Len(m)
           /\ Len(details) = Len(m)
           /\ \A i \in 1..Len(m) :
                LET text == IF m[i][1].Message = <<>> THEN Empty ELSE m[i][1].Message[1] IN
                /\ error.errors[i].Message = text
                /\ error.errors[i].Code = m[i][1].Code
                /\ error.errors[i].Path = <<>>
                /\ IsLowerCased(details[i].code, m[i][1].Code)
                /\ details[i].message = text
                /\ details[i].domain = Empty

\* C20: for a mutation whose inspected payload has successful = true,
\* execution returns no error and the target is populated from the whole
\* "data" map, so that the target field of every mutation field holds that
\* payload's result
C20_SuccessfulReturnsNil ==
    Returned /\ inspected # "none" /\ InspectedPayload.Successful =>
        /\ error.kind = "nil"
        /\ target.state = "decoded"
        /\ DOMAIN target.data.fields = DOMAIN body.data.fields
        /\ \A n \in DOMAIN body.data.fields :
             target.data.fields[n].Result = body.data.fields[n].Result

\* C20 (amended): for a mutation run with a non-nil target whose inspected
\* payload has successful = true and
\* whose data decodes into the target, execution returns no error and the
\* target is populated from the whole "data" map, so that the target field
\* of every mutation field holds that payload's result
C20_SuccessfulPopulatesTarget ==
    Returned /\ inspected # "none" /\ InspectedPayload.Successful /\ body.fits
             /\ target # NilTarget =>
        /\ error.kind = "nil"
        /\ target.state = "decoded"
        /\ DOMAIN target.data.fields = DOMAIN body.data.fields
        /\ \A n \in DOMAIN body.data.fields :
             target.data.fields[n].Result = body.data.fields[n].Result

C20_Witness ==
    /\ Returned
    /\ inspected # "none"
    /\ InspectedPayload.Successful
    /\ body.fits
    /\ Cardinality(DOMAIN body.data.fields) = 2
    /\ error.kind = "nil"
    /\ target.state = "decoded"
    /\ target.data.fields[inspected].Result = "obj"

\* C21: for a mutation response with any number of top-level data fields,
\* at most one payload is inspected: the error list holds the messages of the
\* inspected payload only, and whether an error is returned and what it holds
\* follows from the inspected payload alone, whatever the successful flag
\* and the messages of the other payloads
C21_OnePayloadInspected ==
    /\ branch = "mutation" /\ body.read = "yes" /\ body.json
         /\ body.data.shape = "payloads" /\ DOMAIN body.data.fields # {}
       => inspected \in DOMAIN body.data.fields
    /\ Returned /\ inspected # "none" =>
        IF InspectedPayload.Successful
        THEN /\ error.errors = <<>>
             /\ error.kind = IF body.fits THEN "nil" ELSE "ExecutionError"
        ELSE /\ Len(error.errors) = Len(InspectedPayload.Messages)
             /\ \A i \in 1..Len(error.errors) :
                  /\ error.errors[i].Code = InspectedPayload.Messages[i][1].Code
                  /\ error.errors[i].Message = emptyOrString(InspectedPayload.Messages[i][1].Message)
             /\ error.kind = IF Len(InspectedPayload.Messages) > 0
                             THEN "GraphQLError" ELSE "nil"

C21_Witness ==
    /\ Returned
    /\ inspected # "none"
    /\ ~InspectedPayload.Successful
    /\ Len(error.errors) = 1
    /\ \E n \in DOMAIN body.data.fields :
         /\ n # inspected
         /\ ~body.data.fields[n].Successful
         /\ Len(body.data.fields[n].Messages) = 1

\* C22: the interpretation branch is selected solely by whether the
\* operation is a mutation: in JSON mode and in multipart mode alike, the
\* response of a mutation goes through the mutation-payload branch and the
\* response of a query through the plain data/errors branch
C22_BranchByOperationKind ==
    branch # "none" => (branch = "mutation" <=> op.isMutation)

\* C25: in every multipart execution no attachment stream is read more than
\* once, the streams are read in attachment order, every stream has been
\* copied before the transport is invoked, and when copying attachment i
\* fails no attachment after i is read
C25_StreamsReadOnceInOrder ==
    /\ Len(filesRead) <= Len(op.files)
    /\ \A i \in 1..Len(filesRead) : filesRead[i] = i
    /\ doCalls >= 1 /\ useMultipartForm => Len(filesRead) = Len(op.files)
    /\ \A i \in 1..Len(filesRead) :
         ~op.files[i].copyOK => Len(filesRead) = i /\ doCalls = 0

C25_Witness ==
    /\ useMultipartForm
    /\ Len(op.files) = 2
    /\ ~op.files[1].copyOK
    /\ filesRead = <<1>>
    /\ error.kind = "ExecutionError"

\* C27: when the transport returns an error, execution returns an execution
\* error whose message is the cause's message and whose Response() is nil,
\* and the response is not interpreted (no body read, no decode)
C27_TransportErrorReturned ==
    doCalls >= 1 /\ ~GotResponse =>
        /\ pc \in {"called", "done"}
        /\ error.kind = "ExecutionError"
        /\ error.label = ""
        /\ error.cause = "transport"
        /\ error.status = 0
        /\ body.read = "no"
        /\ branch = "none"
        /\ target \in {Untouched, NilTarget}

C27_Witness ==
    /\ impl = "chain"
    /\ Returned
    /\ doCalls = 1
    /\ ~GotResponse
    /\ result = "nil"
    /\ error.cause = "transport"

\* C28: every execution of Action ends with exactly one of two outcomes: a
\* nil error together with a non-nil result, or a non-nil error together
\* with a nil result; never both, never neither
C28_ResultXorError ==
    impl = "chain" /\ pc \in {"done", "panic"} =>
        \/ error.kind = "nil" /\ result = "gr"
        \/ error.kind # "nil" /\ result = "nil"

\* the body in hand decodes in the branch taken
DecodesSuccessfully ==
    /\ body.read = "yes"
    /\ body.json
    /\ CASE branch = "plain" -> body.data.shape = "null" \/ body.fits
         [] branch = "mutation" ->
              /\ body.data.shape # "plain"
              /\ inspected # "none" /\ InspectedPayload.Successful => body.fits
         [] OTHER -> FALSE

\* the error list the branch taken arrives at is empty
ErrorListEmpty ==
    CASE branch = "plain" -> body.errors = <<>>
      [] branch = "mutation" ->
           \/ inspected = "none"
           \/ InspectedPayload.Successful
           \/ InspectedPayload.Messages = <<>>
      [] OTHER -> FALSE

CallsBuilt == SubSeq(calls, 1, builtAt)

CallsOf(fn) == SelectSeq(CallsBuilt, LAMBDA c : c.fn = fn)

\* the value of the last call of fn for key, among the calls built
LastValue(fn, key) ==
    LET idx == { i \in 1..builtAt : calls[i].fn = fn /\ calls[i].key = key }
    IN calls[CHOOSE i \in idx : \A j \in idx : j <= i].value

KeysOf(fn) == { CallsOf(fn)[i].key : i \in 1..Len(CallsOf(fn)) }

\* C23: in JSON mode the body is the object {query, variables}; variables is
\* null if and only if Var was never called on the operation (never an empty
\* map), and otherwise a map holding, for each key, the value of the last Var
\* call for that key
C23_JSONEnvelope ==
    httpRequest.body.kind = "json" =>
        /\ DOMAIN httpRequest.body = {"kind", "query", "variables"}
        /\ httpRequest.body.query = req.q
        /\ httpRequest.body.variables = JNull <=> CallsOf("Var") = <<>>
        /\ httpRequest.body.variables # JObject(EmptyMap)
        /\ CallsOf("Var") # <<>> =>
             /\ httpRequest.body.variables.kind = "object"
             /\ DOMAIN httpRequest.body.variables.members = KeysOf("Var")
             /\ \A key \in KeysOf("Var") :
                  httpRequest.body.variables.members[key] = LastValue("Var", key)

C23_Witness ==
    /\ httpRequest.body.kind = "json"
    /\ builtAt = 3
    /\ calls[1].fn = "Var" /\ calls[2].fn = "Var" /\ calls[3].fn = "Var"
    /\ calls[1].key = calls[3].key
    /\ calls[1].value # calls[3].value
    /\ calls[2].key # calls[1].key
    /\ httpRequest.body.variables.members[calls[1].key] = calls[3].value

\* C24: in multipart mode the parts appear in this order: the query field
\* first; then the variables field, present if and only if the operation has
\* at least one variable; then one file part per attachment in the order of
\* the File calls, each with its field name and file name
C24_MultipartParts ==
    httpRequest.body.kind = "multipart" =>
        LET parts == httpRequest.body.parts
            hasVars == CallsOf("Var") # <<>>
            first == IF hasVars THEN 3 ELSE 2
        IN /\ Len(parts) = first - 1 + Len(CallsOf("File"))
           /\ parts[1].name = "query" /\ parts[1].filename = "" /\ parts[1].value = req.q
           /\ hasVars =>
                /\ parts[2].name = "variables"
                /\ parts[2].filename = ""
                /\ parts[2].value.kind = "object"
                /\ DOMAIN parts[2].value.members = KeysOf("Var")
           /\ \A i \in 1..Len(CallsOf("File")) :
                /\ parts[first - 1 + i].name = CallsOf("File")[i].key
                /\ parts[first - 1 + i].filename = CallsOf("File")[i].value

C24_Witness ==
    /\ httpRequest.body.kind = "multipart"
    /\ builtAt = 3
    /\ calls[1].fn = "File" /\ calls[2].fn = "Var" /\ calls[3].fn = "File"
    /\ calls[1].key # calls[3].key
    /\ calls[1].value # calls[3].value
    /\ Len(httpRequest.body.parts) = 4
    /\ httpRequest.body.parts[3].name = calls[1].key
    /\ httpRequest.body.parts[4].filename = calls[3].value

\* v is among the values h holds for key
HasValue(h, key, v) ==
    /\ key \in DOMAIN h
    /\ \E i \in 1..Len(h[key]) : h[key][i] = v

\* the mime type of the body built
MimeTypeBuilt ==
    IF httpRequest.body.kind = "multipart" THEN "multipart/form-data"
    ELSE "application/json; charset=utf-8"

\* C26: in the request dispatched, every header value v the operation holds
\* for a key k is among the request's values for k; the operation's headers
\* are added and never replace: the Content-Type and the Accept the pipeline
\* set are still among the values of their keys
C26_HeadersAdded ==
    httpRequest.body.kind # "none" =>
        /\ \A key \in KeysOf("Header") :
             HasValue(httpRequest.header, CanonicalKey(key), LastValue("Header", key))
        /\ HasValue(httpRequest.header, "Content-Type", MimeTypeBuilt)
        /\ HasValue(httpRequest.header, "Accept", "application/json; charset=utf-8")

C26_Witness ==
    /\ httpRequest.body.kind = "json"
    /\ builtAt = 2
    /\ calls[1] = [fn |-> "Header", key |-> "content-type", value |-> "text/plain"]
    /\ calls[2] = [fn |-> "Header", key |-> "X-Custom-Header", value |-> "123"]
    /\ httpRequest.header["Content-Type"] = <<"application/json; charset=utf-8", "text/plain">>
    /\ httpRequest.header["X-Custom-Header"] = <<"123">>

\* what execution g has ended with: what Action returned to it, or the
\* panic that ended the process before Action returned
Outcome(g) ==
    IF frames[g].pc = "done" THEN frames[g].ret
    ELSE IF crashed THEN Panicked
    ELSE Pending

\* C30: for every interleaving of two concurrent executions on one shared
\* chain with distinct operations, the outcome of each execution equals the
\* outcome it has when executed alone with the same transport responses, and
\* no step modifies the endpoint, the encoding mode, the close flag, the
\* transport or the log sink of the chain
C30_ConcurrentIsolation ==
    DOMAIN frames = Executions =>
        /\ \A g \in Executions :
             Outcome(g) # Pending =>
                 Outcome(g) = ActionAlone(origin, jobs[g].op, jobs[g].reply)
        /\ origin = NewChain(endpointOK, useMultipartForm)

\* C32: for a mutation response whose single payload has successful = false,
\* result = null and an empty messages list, Run returns a nil error
C32_UnsuccessfulWithoutMessagesIsNil ==
    /\ Returned
    /\ inspected # "none"
    /\ Cardinality(DOMAIN body.data.fields) = 1
    /\ InspectedPayload = Payload(FALSE, <<>>, "null")
    => error.kind = "nil"

C32_Witness ==
    /\ impl = "client"
    /\ Returned
    /\ inspected = "m"
    /\ DOMAIN body.data.fields = {"m"}
    /\ InspectedPayload = Payload(FALSE, <<>>, "null")
    /\ body.errors = <<>>
    /\ error.kind = "nil"

\* the body read cannot be decoded in the branch the kind of the operation
\* selects: the plain envelope for a query, the payload envelope for a
\* mutation, or the mapping of a successful mutation into the target
CannotBeDecoded ==
    /\ body.read = "yes"
    /\ IF op.isMutation
       THEN \/ ~body.json
            \/ body.data.shape = "plain"
            \/ /\ inspected # "none"
               /\ InspectedPayload.Successful
               /\ ~body.fits
       ELSE \/ ~body.json
            \/ body.data.shape # "null" /\ ~body.fits

IsDecodingError(err) ==
    err.kind = "ExecutionError" /\ err.label = "decoding response"

\* C33: for every 2xx response whose body cannot be decoded in the selected
\* branch (plain envelope for queries, mutation-payload envelope for
\* mutations, or the structural mapping of a successful mutation into the
\* target), execution returns an execution error "decoding response", never
\* a GraphQL-level error, a request error or nil
C33_DecodeFailureIsExecutionError ==
    /\ Returned
    /\ response.status \in 200..299
    /\ CannotBeDecoded
    => IsDecodingError(error)

BodyRead ==
    [json |-> body.json, errors |-> body.errors, data |-> body.data, fits |-> body.fits]

\* C36: outcome determinism for mutations: for a fixed mutation response
\* body, including one with two or more top-level data fields whose
\* successful flags differ, every execution yields the same outcome (same
\* nil or non-nil error, same error entries); the outcome does not depend on
\* map iteration order
C36_MutationOutcomeDeterministic ==
    branch = "mutation" /\ body.read = "yes" =>
        \A o1, o2 \in MutationOutcomes(BodyRead, [response EXCEPT !.closed = FALSE],
                                       Untouched) :
            /\ o1.panic = o2.panic
            /\ o1.err.kind = o2.err.kind
            /\ o1.err.errors = o2.err.errors

C38_TargetUntouchedOnError ==
    Returned /\ error.kind # "nil" => target \in {Untouched, NilTarget}

\* C35: for a plain (query) response whose error entry has no code but has
\* extensions.code = X on the wire, the effective code of the decoded entry
\* is lower-case X, so the Details() entry of the returned error and, when
\* the entry is the last one, its Code() carry lower-case X
C35_ExtensionCodeFromWire ==
    Returned /\ branch = "plain" /\ error.kind = "GraphQLError" =>
        \A i \in 1..Len(body.errors) :
            body.errors[i].code = Empty /\ body.errors[i].extensions # Empty =>
                /\ IsLowerCased(ErrCode(error.errors[i]), body.errors[i].extensions)
                /\ IsLowerCased(GraphQLError_Details(error.errors)[i].code,
                                body.errors[i].extensions)
                /\ i = Len(body.errors) =>
                     IsLowerCased(GraphQLError_Code(error.errors),
                                  body.errors[i].extensions)

\* the calls of fn made on the operation so far
MadeCalls(fn) == SelectSeq(calls, LAMBDA c : c.fn = fn)

MadeKeys(fn) == { MadeCalls(fn)[i].key : i \in 1..Len(MadeCalls(fn)) }

\* the value of the last call of fn for key
LastMade(fn, key) ==
    LET idx == { i \in 1..Len(calls) : calls[i].fn = fn /\ calls[i].key = key }
    IN calls[CHOOSE i \in idx : \A j \in idx : j <= i].value

\* what Files(), Vars() and Headers() hold after the calls made
ComponentsFollowCalls ==
    /\ req.files = [i \in 1..Len(MadeCalls("File")) |->
                      [Field |-> MadeCalls("File")[i].key,
                       Name |-> MadeCalls("File")[i].value]]
    /\ req.vars = <<>> <=> MadeCalls("Var") = <<>>
    /\ req.vars # <<>> =>
         /\ DOMAIN req.vars[1] = MadeKeys("Var")
         /\ \A key \in MadeKeys("Var") : req.vars[1][key] = LastMade("Var", key)
    /\ DOMAIN req.header = { CanonicalKey(key) : key \in MadeKeys("Header") }
    /\ \A key \in MadeKeys("Header") :
         req.header[CanonicalKey(key)] = <<LastMade("Header", key)>>

\* a call leaves the query text, the mutation flag and the components of
\* the other two kinds of call as they were
CallKeepsTheRest ==
    calls' # calls =>
        LET fn == calls'[Len(calls')].fn IN
        /\ req'.q = req.q
        /\ op'.isMutation = op.isMutation
        /\ fn # "Var" => req'.vars = req.vars
        /\ fn # "Header" => req'.header = req.header
        /\ fn # "File" => req'.files = req.files

\* C39: after any sequence of Var, Header and File calls on an operation,
\* each call has changed only its own component (variables, headers or
\* files) and never the query text or the mutation flag; Files() lists the
\* attachments in call order with none dropped; Vars() holds the last value
\* per key; Header(k, v) replaces all earlier values for k, so the operation
\* holds exactly one value per header key
C39_BuilderFrame == [](ComponentsFollowCalls) /\ [][CallKeepsTheRest]_vars

C39_Witness ==
    /\ Len(calls) = 3
    /\ op.isMutation
    /\ calls[1].fn = "Header" /\ calls[2].fn = "File" /\ calls[3].fn = "Header"
    /\ calls[1].key = calls[3].key
    /\ calls[1].value # calls[3].value
    /\ req.header[CanonicalKey(calls[1].key)] = <<calls[3].value>>
    /\ Len(req.files) = 1
    /\ req.vars = <<>>
    /\ req.q = QueryText

\* the raw query after operation=name has been added
WithOperation(raw, name) ==
    Values_Encode(Values_Add(url_Query(raw), "operation", name))

\* the request can be read again: GetBody is there and neither it nor the
\* read of its copy fails
CanBeReread == trip.getBody = "ok" /\ trip.readOK

\* C31: for every request passed through the SetGraphqlOperation
\* round-tripper whose body contains query <Name> or mutation <Name>, the
\* inner round-tripper is invoked exactly once with the query parameter
\* operation=<Name>, the name of the first match in the body, added to the
\* URL; when the body has no such match or cannot be re-read, the URL is
\* unchanged and the request is still forwarded exactly once
C31_OperationAdded ==
    /\ trip.pc \in {"done", "panic"} =>
         /\ trip.inner = 1
         /\ \E raw \in RawQueries :
              trip.sent = IF CanBeReread /\ Matches(trip.body) # {}
                          THEN WithOperation(raw, FindName(trip.body))
                          ELSE raw
    /\ trip.inner <= 1

\* C40: for every combination of construction options, including none and
\* including a transport option given a nil value, the constructed client
\* has a non-nil transport capability (the default one when none was
\* supplied), so dispatch never dereferences a nil transport
C40_TransportNeverNil ==
    /\ made.pc = "constructed" => ~NilTransport(made.c)
    /\ made.pc # "panic"

====
